---- MODULE Spec2Model ----
(***************************************************************************)
(* Matrix channel adapter: the inbound pipeline of monitorMatrixProvider   *)
(* (replay guard, DM authorization / pairing, backend dispatch) together   *)
(* with the persisted sync checkpoint it reads and writes.                 *)
(*                                                                         *)
(* Every inbound timeline event starts one run of handleMatrixEvent.  The  *)
(* handler is an async function started with `void`, so the handlers of    *)
(* several events are in flight together and interleave at their awaits.   *)
(* Each action below is the code between two awaits of one handler.        *)
(*                                                                         *)
(* Three specifications share the module:                                  *)
(*   Spec      the inbound pipeline and the checkpoint it reads and writes *)
(*   SyncSpec  one run of monitorMatrixProvider / startMatrixSync: start,  *)
(*             sync state changes, the backoff restart loop, the abort     *)
(*             signal, the token writes (SyncFair adds its scheduling)     *)
(*   FileSpec  writeJsonFile on the file system, with crashes              *)
(***************************************************************************)
EXTENDS Integers, Sequences, FiniteSets, TLC

\* ------------------------------------------------------------------ bounds
MaxEvents == 2      \* timeline events delivered over the whole behaviour
MaxTs == 2          \* largest origin_server_ts / clock value
MaxRuns == 2        \* process runs of the account (1 + restarts)
StartTime == 2      \* Date.now() of the first run
MaxAttempt == 7     \* largest value of restartAttempt
MaxTokens == 2      \* next-sync tokens observed over one run
MaxWriters == 2     \* writeJsonFile calls over the whole behaviour

\* --------------------------------------------------------------- constants
DirectThreshold == 2
initialMs == 1500       \* SYNC_BACKOFF.initialMs
maxMs == 30000          \* SYNC_BACKOFF.maxMs
factorTenths == 18      \* SYNC_BACKOFF.factor, in tenths
jitterPercent == 25     \* SYNC_BACKOFF.jitter, in percent

\* ------------------------------------------------------------------ strings
\* A string is a sequence of one-character strings.
UpperToLower ==
    ("A" :> "a") @@ ("B" :> "b") @@ ("I" :> "i") @@ ("M" :> "m") @@
    ("N" :> "n") @@ ("O" :> "o") @@ ("R" :> "r") @@ ("T" :> "t") @@
    ("X" :> "x")

toLowerCase(s) ==
    [k \in 1..Len(s) |-> IF s[k] \in DOMAIN UpperToLower THEN UpperToLower[s[k]] ELSE s[k]]

RECURSIVE trimStart(_)
trimStart(s) == IF s # <<>> /\ Head(s) = " " THEN trimStart(Tail(s)) ELSE s

RECURSIVE trimEnd(_)
trimEnd(s) ==
    IF s # <<>> /\ s[Len(s)] = " " THEN trimEnd(SubSeq(s, 1, Len(s) - 1)) ELSE s

trim(s) == trimEnd(trimStart(s))

startsWith(s, p) == Len(s) >= Len(p) /\ SubSeq(s, 1, Len(p)) = p

MatrixPrefix == <<"m", "a", "t", "r", "i", "x", ":">>

normalizeAllowEntry(entry) ==
    LET value == trim(entry) IN
    IF value = <<>> THEN <<>>
    ELSE IF startsWith(toLowerCase(value), MatrixPrefix)
         THEN toLowerCase(trim(SubSeq(value, Len(MatrixPrefix) + 1, Len(value))))
         ELSE toLowerCase(value)

resolveAllowFrom(entries) ==
    {normalizeAllowEntry(e) : e \in entries} \ {<<>>}

\* ------------------------------------------------------------------- inputs
Wildcard == <<"*">>
Bob == <<"@", "b", "o", "b">>
SelfId == <<"@", "b", "o", "t">>
BobEntry == <<" ", "M", "a", "t", "r", "i", "x", ":", "@", "B", "o", "b">>

Senders == {Bob, SelfId}
Rooms == {"dm", "grp"}
Policies == {"open", "pairing", "allowlist", "disabled"}
AllowFromChoices == {{}, {Wildcard}, {BobEntry}}
Timestamps == 0..MaxTs

JoinedMemberCount(room) == IF room = "dm" THEN 2 ELSE 3

NoToken == ""
Token == "s1"

EmptyTs == [r \in Rooms |-> 0]

\* The timeline events the transport may deliver: any message of another
\* user, and a message of the account itself (its own echo).
Events ==
    [room : Rooms, sender : Senders \ {SelfId}, ts : Timestamps]
    \cup [room : {"dm"}, sender : {SelfId}, ts : {MaxTs}]

VARIABLES
    dmPolicy,           \* account.config.dmPolicy
    allowFrom,          \* account.config.allowFrom (raw entries)
    hasSyncToken,       \* monitorMatrixProvider: hasSyncToken
    startupCutoff,      \* monitorMatrixProvider: startupCutoff
    lastEventTsByRoom,  \* monitorMatrixProvider: in-memory map (0 = no entry)
    syncFile,           \* sync.json: [nextBatch, lastEventTsByRoom]
    pairingRequests,    \* pairing store: senders with a pending request
    storeAllowFrom,     \* pairing store: approved list
    handlers,           \* one record per delivered event, in delivery order
    run,                \* number of the current process run
    loadOk,             \* the current run read sync.json successfully
    alive,              \* the process of the current run has not been terminated
    \* ---- the sync session (SyncSpec)
    account,            \* resolveMatrixAccount: which of the three fields are set
    startupError,       \* what monitorMatrixProvider threw before the sync loop
    abortSignal,        \* opts.abortSignal: "absent", "armed" or "aborted"
    mainPc,             \* position of monitorMatrixProvider / startMatrixSync
    schedPc,            \* position of the scheduleRestart cycle
    clientRunning,      \* the client: started and not stopped since
    syncState,          \* the sync state last handed to onSync
    restartAttempt,     \* startMatrixSync: restartAttempt
    restarting,         \* startMatrixSync: restarting
    delayMs,            \* scheduleRestart: delayMs of the latest round
    lastError,          \* status.lastError as set through onError / onSyncState
    tokenState,         \* per next-sync token: unseen / pending / written / failed
    \* ---- the file system under writeJsonFile (FileSpec)
    files,              \* path -> [content, mode], Absent when there is none
    dirExists,          \* the state directory exists
    writers,            \* one record per writeJsonFile call
    \* ---- the replies to one inbound message (ReplySpec)
    replies,            \* the reply payloads the backend produces, in order
    dpc,                \* position of the dispatch of the message
    cur,                \* [p, k]: payload and part being delivered
    sentLog,            \* the sends made, in order: [p, k, media, text, ok]
    errorSink,          \* what onError reported, in order
    typingCalls,        \* the values handed to client.sendTyping, in order
    outboundActivity,   \* recordChannelActivity calls with direction "outbound"
    \* ---- the invites (JoinSpec)
    autoJoinRooms,      \* account.config.autoJoinRooms (raw entries)
    invites             \* one record per RoomMember event handled

startup == <<account, startupError>>

session == <<startup, abortSignal, mainPc, schedPc, clientRunning, syncState,
             restartAttempt, restarting, delayMs, lastError, tokenState>>

disk == <<files, dirExists, writers>>

reply == <<replies, dpc, cur, sentLog, errorSink, typingCalls, outboundActivity>>

join == <<autoJoinRooms, invites>>

vars == <<dmPolicy, allowFrom, hasSyncToken, startupCutoff, lastEventTsByRoom,
          syncFile, pairingRequests, storeAllowFrom, handlers, run, loadOk,
          alive, session, disk, reply, join>>

config == <<dmPolicy, allowFrom>>

\* --------------------------------------------------------------- the guard
\* (variant: a tie with the last-seen timestamp is let through)
isOldStrict(ts, lastSeen) == ts # 0 /\ lastSeen # 0 /\ ts < lastSeen

\* (variant: an event without a timestamp is compared like timestamp 0)
isOldUntimedToo(ts, lastSeen) == lastSeen # 0 /\ ts <= lastSeen

\* handleMatrixEvent: "skip old message"
isOld(ts, lastSeen) == ts # 0 /\ lastSeen # 0 /\ ts <= lastSeen

\* (variant: the cutoff is applied whether or not a sync token was stored)
isPreStartAlways(ts, lastSeen) == ts # 0 /\ lastSeen = 0 /\ ts < startupCutoff

\* handleMatrixEvent: "skip pre-start message"
isPreStart(ts, lastSeen) ==
    ts # 0 /\ ~hasSyncToken /\ lastSeen = 0 /\ ts < startupCutoff

\* (variant: the in-memory map is not advanced before the await)
recordedNever(lastSeen, ts) == lastSeen

\* recordInboundTimestamp, up to its await: the new in-memory last-seen
recorded(lastSeen, ts) ==
    IF ts = 0 THEN lastSeen
    ELSE IF ts <= lastSeen THEN lastSeen
    ELSE ts

\* recordInboundTimestamp: does it reach the checkpoint write
writesCheckpoint(lastSeen, ts) == ts # 0 /\ ts > lastSeen

\* the patch recordInboundTimestamp hands to updateMatrixSyncState
patchLastEvent(prev, room, ts) ==
    [prev EXCEPT !.lastEventTsByRoom = [@ EXCEPT ![room] = ts]]

\* (variant: the patch returns the token alone, without ...prev)
patchNextBatchAlone(prev, token) ==
    [nextBatch |-> token, lastEventTsByRoom |-> [r \in DOMAIN prev.lastEventTsByRoom |-> 0]]

\* the patch onSync hands to updateMatrixSyncState
patchNextBatch(prev, token) == [prev EXCEPT !.nextBatch = token]

\* updateMatrixSyncState: the file after a successful update is the patch
\* applied to the file's content, replaced in one step (temp file + rename)
updateMatrixSyncState(prev, patched) == patched

\* ------------------------------------------------------------ authorization
\* (variant: every room counts as a direct conversation)
isDirectAlways(room) == TRUE

\* handleMatrixEvent: isDirect = joinedCount <= 2
isDirect(room) == JoinedMemberCount(room) <= DirectThreshold

\* (variant: the disabled check is missing)
dropsDisabledNever(room) == FALSE

\* handleMatrixEvent: "drop dm (dmPolicy: disabled)"
dropsDisabled(room) == isDirect(room) /\ dmPolicy = "disabled"

needsAllowCheck(room) == isDirect(room) /\ dmPolicy # "open"

\* (variant: the store's approved list is left out)
resolveEffectiveAllowFromBaseOnly(storeAllow) == resolveAllowFrom(allowFrom)

\* resolveEffectiveAllowFrom; a failed store read counts as an empty list
resolveEffectiveAllowFrom(storeAllow) == resolveAllowFrom(allowFrom) \cup storeAllow

\* (variant: every sender counts as allowed)
allowedAlways(effective, sender) == TRUE

\* handleMatrixEvent: allowWildcard || effectiveAllowFrom.includes(normalizedSender)
allowed(effective, sender) ==
    Wildcard \in effective \/ normalizeAllowEntry(sender) \in effective

\* (variant: a rejected sender gets a pairing request under every policy)
afterRejectedAlwaysPairs(policy) == "upsert"

\* handleMatrixEvent, if (!allowed): the pairing branch for dmPolicy
\* "pairing", else "Blocked unauthorized matrix sender" and return
afterRejected(policy) == IF policy = "pairing" THEN "upsert" ELSE "blocked"

\* upsertChannelPairingRequest: one request per sender; created only when
\* the sender had none
upsertChannelPairingRequest(requests, sender) ==
    [created |-> sender \notin requests, requests |-> requests \cup {sender}]

\* (variant: the reply is sent whether or not the request is new)
sendsPairingReplyAlways(created) == TRUE

\* handleMatrixEvent: if (created) { sendMatrixText(pairing reply) }
sendsPairingReply(created) == created

\* --------------------------------------------------------- handler positions
Waiting == {"decrypt", "persist", "allow", "upsert", "pairreply", "dispatch"}
Ended == {"undecryptable", "self", "old", "prestart", "writefail", "disabled",
          "blocked", "pending", "paired", "pairfail", "nobody", "dispatched",
          "killed"}

\* from the media/body section up to the backend call; the body is read
\* here for the first time, so it is drawn here (hasBody: bodyText non-empty)
enterDispatch(hasBody) == IF hasBody THEN "dispatch" ELSE "nobody"

\* from the end of recordInboundTimestamp up to the next await
afterRecord(room, hasBody) ==
    IF dropsDisabled(room) THEN "disabled"
    ELSE IF needsAllowCheck(room) THEN "allow"
    ELSE enterDispatch(hasBody)

Live(i) == alive /\ handlers[i].run = run /\ handlers[i].pc \in Waiting

SetPc(i, pc) == handlers' = [handlers EXCEPT ![i].pc = pc]

\* The approved list the account starts with.  Under pairing and allowlist an
\* approved sender is reached through Approve; under disabled no request is
\* ever created, so a list left by an earlier configuration is drawn here.
InitialStores(policy) == IF policy = "disabled" THEN {{}, {Bob}} ELSE {{}}

\* ------------------------------------------------- session and disk at rest
TargetPath == "sync.json"

\* the temp paths of writeJsonFile, one per crypto.randomUUID() drawn
TmpPaths == <<"sync.json.u1.tmp", "sync.json.u2.tmp", "sync.json.u3.tmp">>

Paths == {TargetPath} \cup {TmpPaths[k] : k \in 1..Len(TmpPaths)}

\* what a path with no file holds (a file that exists has an octal mode)
Absent == [content |-> <<>>, mode |-> "ENOENT"]

\* the fields of a Matrix account, each one set or empty after trimming
Accounts == [serverUrl : BOOLEAN, username : BOOLEAN, password : BOOLEAN]

FullAccount == [serverUrl |-> TRUE, username |-> TRUE, password |-> TRUE]

\* monitorMatrixProvider has been called with this account
SessionStart(signal) ==
    /\ startupError = "none"
    /\ abortSignal = signal
    /\ mainPc = "create"
    /\ schedPc = "idle"
    /\ clientRunning = FALSE
    /\ syncState = "NONE"
    /\ restartAttempt = 0
    /\ restarting = FALSE
    /\ delayMs = 0
    /\ lastError = "unset"
    /\ tokenState = [k \in 1..MaxTokens |-> "unseen"]

\* no auto-join entry is configured and no invite has come
JoinRest ==
    /\ autoJoinRooms = <<>>
    /\ invites = <<>>

\* no message has been handed to the backend
ReplyRest ==
    /\ replies = <<>>
    /\ dpc = "start"
    /\ cur = [p |-> 0, k |-> 0]
    /\ sentLog = <<>>
    /\ errorSink = <<>>
    /\ typingCalls = <<>>
    /\ outboundActivity = 0

\* a state directory that was never written
DiskEmpty ==
    /\ files = [p \in Paths |-> Absent]
    /\ dirExists = FALSE
    /\ writers = <<>>

\* ------------------------------------------------------------------ actions
Init ==
    /\ dmPolicy \in Policies
    /\ allowFrom \in AllowFromChoices
    /\ hasSyncToken = FALSE
    /\ startupCutoff = StartTime
    /\ lastEventTsByRoom = EmptyTs
    /\ syncFile = [nextBatch |-> NoToken, lastEventTsByRoom |-> EmptyTs]
    /\ pairingRequests = {}
    /\ storeAllowFrom \in InitialStores(dmPolicy)
    /\ handlers = <<>>
    /\ run = 1
    /\ loadOk = TRUE
    /\ alive = TRUE
    /\ account = FullAccount
    /\ SessionStart("absent")
    /\ DiskEmpty
    /\ ReplyRest
    /\ JoinRest

\* onTimeline -> onEvent -> void handleMatrixEvent(...), up to the first await
Deliver(ev) ==
    /\ alive
    /\ Len(handlers) < MaxEvents
    /\ handlers' = Append(handlers,
          [room |-> ev.room, sender |-> ev.sender, ts |-> ev.ts,
           run |-> run, pc |-> "decrypt", seen |-> 0])
    /\ UNCHANGED <<config, session, disk, reply, join, alive, hasSyncToken, startupCutoff, lastEventTsByRoom,
                   syncFile, pairingRequests, storeAllowFrom, run, loadOk>>

\* decryptEventIfNeeded failed, or the event is a decryption failure
DecryptFail(i) ==
    /\ Live(i) /\ handlers[i].pc = "decrypt"
    /\ SetPc(i, "undecryptable")
    /\ UNCHANGED <<config, session, disk, reply, join, alive, hasSyncToken, startupCutoff, lastEventTsByRoom,
                   syncFile, pairingRequests, storeAllowFrom, run, loadOk>>

\* (variant: the account's own events are handled like any other)
isSelfNever(senderId) == FALSE

\* handleMatrixEvent: if (inbound.senderId === selfId) return
isSelf(senderId) == senderId = SelfId

\* after decryption: self filter, replay guard, in-memory record
Check(i, hasBody) ==
    /\ Live(i) /\ handlers[i].pc = "decrypt"
    /\ LET h == handlers[i]
           lastSeen == lastEventTsByRoom[h.room]
           g == [h EXCEPT !.seen = lastSeen]
       IN
       IF isSelf(h.sender)
       THEN /\ SetPc(i, "self")
            /\ UNCHANGED lastEventTsByRoom
       ELSE IF isOld(h.ts, lastSeen)
       THEN /\ handlers' = [handlers EXCEPT ![i] = [g EXCEPT !.pc = "old"]]
            /\ UNCHANGED lastEventTsByRoom
       ELSE IF isPreStart(h.ts, lastSeen)
       THEN /\ handlers' = [handlers EXCEPT ![i] = [g EXCEPT !.pc = "prestart"]]
            /\ UNCHANGED lastEventTsByRoom
       ELSE /\ lastEventTsByRoom' =
                  [lastEventTsByRoom EXCEPT ![h.room] = recorded(lastSeen, h.ts)]
            /\ handlers' = [handlers EXCEPT ![i] =
                  [g EXCEPT !.pc = IF writesCheckpoint(lastSeen, h.ts)
                                   THEN "persist" ELSE afterRecord(h.room, hasBody)]]
    /\ UNCHANGED <<config, session, disk, reply, join, alive, hasSyncToken, startupCutoff, syncFile,
                   pairingRequests, storeAllowFrom, run, loadOk>>

\* updateMatrixSyncState of recordInboundTimestamp completes
PersistDone(i, hasBody) ==
    /\ Live(i) /\ handlers[i].pc = "persist"
    /\ syncFile' = updateMatrixSyncState(syncFile,
          patchLastEvent(syncFile, handlers[i].room, handlers[i].ts))
    /\ SetPc(i, afterRecord(handlers[i].room, hasBody))
    /\ UNCHANGED <<config, session, disk, reply, join, alive, hasSyncToken, startupCutoff, lastEventTsByRoom,
                   pairingRequests, storeAllowFrom, run, loadOk>>

\* void handleMatrixEvent(...): nothing catches the rejection of a handler.
\* What an unhandled rejection does is the runtime's choice (fatal): it ends
\* the process, or it is reported and the process lives on.
terminatesOnUnhandledRejection(fatal) == fatal

\* updateMatrixSyncState rejects: the handler ends with the rejection, which
\* nobody handles
PersistFail(i, fatal) ==
    /\ Live(i) /\ handlers[i].pc = "persist"
    /\ alive' = ~terminatesOnUnhandledRejection(fatal)
    /\ handlers' = [j \in 1..Len(handlers) |->
          IF j = i THEN [handlers[j] EXCEPT !.pc = "writefail"]
          ELSE IF terminatesOnUnhandledRejection(fatal) /\ handlers[j].pc \in Waiting
               THEN [handlers[j] EXCEPT !.pc = "killed"]
          ELSE handlers[j]]
    /\ UNCHANGED <<config, session, disk, reply, join, hasSyncToken, startupCutoff,
                   lastEventTsByRoom, syncFile, pairingRequests, storeAllowFrom,
                   run, loadOk>>

\* resolveEffectiveAllowFrom completes; the allow decision
Authorize(i, storeReadOk, hasBody) ==
    /\ Live(i) /\ handlers[i].pc = "allow"
    /\ LET h == handlers[i]
           effective ==
               resolveEffectiveAllowFrom(IF storeReadOk THEN storeAllowFrom ELSE {})
       IN SetPc(i, IF allowed(effective, h.sender) THEN enterDispatch(hasBody)
                   ELSE afterRejected(dmPolicy))
    /\ UNCHANGED <<config, session, disk, reply, join, alive, hasSyncToken, startupCutoff, lastEventTsByRoom,
                   syncFile, pairingRequests, storeAllowFrom, run, loadOk>>

\* upsertChannelPairingRequest completes
Upsert(i) ==
    /\ Live(i) /\ handlers[i].pc = "upsert"
    /\ LET res == upsertChannelPairingRequest(pairingRequests, handlers[i].sender) IN
       /\ SetPc(i, IF sendsPairingReply(res.created) THEN "pairreply" ELSE "pending")
       /\ pairingRequests' = res.requests
    /\ UNCHANGED <<config, session, disk, reply, join, alive, hasSyncToken, startupCutoff, lastEventTsByRoom,
                   syncFile, storeAllowFrom, run, loadOk>>

\* sendMatrixText of the pairing reply completes (ok) or throws (caught)
PairReply(i, ok) ==
    /\ Live(i) /\ handlers[i].pc = "pairreply"
    /\ SetPc(i, IF ok THEN "paired" ELSE "pairfail")
    /\ UNCHANGED <<config, session, disk, reply, join, alive, hasSyncToken, startupCutoff, lastEventTsByRoom,
                   syncFile, pairingRequests, storeAllowFrom, run, loadOk>>

\* dispatchReplyFromConfig completes; markDispatchIdle
DispatchDone(i) ==
    /\ Live(i) /\ handlers[i].pc = "dispatch"
    /\ SetPc(i, "dispatched")
    /\ UNCHANGED <<config, session, disk, reply, join, alive, hasSyncToken, startupCutoff, lastEventTsByRoom,
                   syncFile, pairingRequests, storeAllowFrom, run, loadOk>>

\* the approval surface approves a pending request
Approve(sender) ==
    /\ sender \in pairingRequests
    /\ sender \notin storeAllowFrom
    /\ storeAllowFrom' = storeAllowFrom \cup {sender}
    /\ UNCHANGED <<config, session, disk, reply, join, alive, hasSyncToken, startupCutoff, lastEventTsByRoom,
                   syncFile, pairingRequests, handlers, run, loadOk>>

\* onSync with a next-sync token: the token reaches sync.json
SyncToken ==
    /\ alive
    /\ syncFile.nextBatch = NoToken
    /\ syncFile' = updateMatrixSyncState(syncFile, patchNextBatch(syncFile, Token))
    /\ UNCHANGED <<config, session, disk, reply, join, alive, hasSyncToken, startupCutoff, lastEventTsByRoom,
                   pairingRequests, storeAllowFrom, handlers, run, loadOk>>

\* what readFile and JSON.parse make of sync.json: a JSON object, no file,
\* a file that cannot be read, text that is not JSON, JSON that is no object
FileKinds == {"object", "ENOENT", "EACCES", "invalid", "scalar"}

\* what the monitor works with when readMatrixSyncState returns null
NoPriorState == [nextBatch |-> NoToken, lastEventTsByRoom |-> EmptyTs]

\* (variant: only a missing file yields the fallback, other errors propagate)
readJsonFileRethrows(kind, stored, fallback) ==
    CASE kind = "object" -> [value |-> stored, object |-> TRUE, exists |-> TRUE, threw |-> FALSE]
      [] kind = "scalar" -> [value |-> fallback, object |-> FALSE, exists |-> TRUE, threw |-> FALSE]
      [] kind = "ENOENT" -> [value |-> fallback, object |-> FALSE, exists |-> FALSE, threw |-> FALSE]
      [] OTHER -> [value |-> fallback, object |-> FALSE, exists |-> FALSE, threw |-> TRUE]

\* readJsonFile: the parsed value, or the fallback for every error of
\* readFile and of JSON.parse (the catch returns the fallback for ENOENT
\* and for every other code alike)
readJsonFile(kind, stored, fallback) ==
    CASE kind = "object" -> [value |-> stored, object |-> TRUE, exists |-> TRUE, threw |-> FALSE]
      [] kind = "scalar" -> [value |-> fallback, object |-> FALSE, exists |-> TRUE, threw |-> FALSE]
      [] kind = "ENOENT" -> [value |-> fallback, object |-> FALSE, exists |-> FALSE, threw |-> FALSE]
      [] OTHER -> [value |-> fallback, object |-> FALSE, exists |-> FALSE, threw |-> FALSE]

\* readMatrixSyncState: value && typeof value === "object" ? value : null
readMatrixSyncState(kind) ==
    LET r == readJsonFile(kind, syncFile, NoPriorState) IN
    [state |-> IF r.object THEN r.value ELSE NoPriorState,
     loaded |-> r.object /\ r.exists,
     threw |-> r.threw]

\* the process ends, and with it every handler still in flight;
\* monitorMatrixProvider starts again and reads sync.json
Restart(now, kind) ==
    /\ run < MaxRuns
    /\ now >= startupCutoff
    /\ run' = run + 1
    /\ LET r == readMatrixSyncState(kind) IN
          /\ loadOk' = r.loaded
          /\ alive' = ~r.threw
          /\ hasSyncToken' = (r.state.nextBatch # NoToken)
          /\ lastEventTsByRoom' = r.state.lastEventTsByRoom
    /\ startupCutoff' = now
    /\ handlers' = [i \in 1..Len(handlers) |->
          IF handlers[i].pc \in Waiting
          THEN [handlers[i] EXCEPT !.pc = "killed"] ELSE handlers[i]]
    /\ UNCHANGED <<config, session, disk, reply, join, syncFile, pairingRequests, storeAllowFrom>>

Next ==
    \/ \E ev \in Events : Deliver(ev)
    \/ \E i \in 1..Len(handlers) : DecryptFail(i)
    \/ \E i \in 1..Len(handlers), hasBody \in BOOLEAN : Check(i, hasBody)
    \/ \E i \in 1..Len(handlers), hasBody \in BOOLEAN : PersistDone(i, hasBody)
    \/ \E i \in 1..Len(handlers), fatal \in BOOLEAN : PersistFail(i, fatal)
    \/ \E i \in 1..Len(handlers), storeReadOk \in BOOLEAN, hasBody \in BOOLEAN :
          Authorize(i, storeReadOk, hasBody)
    \/ \E i \in 1..Len(handlers) : Upsert(i)
    \/ \E i \in 1..Len(handlers), ok \in BOOLEAN : PairReply(i, ok)
    \/ \E i \in 1..Len(handlers) : DispatchDone(i)
    \/ \E sender \in Senders : Approve(sender)
    \/ SyncToken
    \/ \E now \in 1..MaxTs, kind \in FileKinds : Restart(now, kind)

Spec == Init /\ [][Next]_vars

\* ------------------------------------------------------------------------
\* Direct messages when every read and write succeeds (AuthSpec): the same
\* handler steps for senders whose ids differ in their use of capitals,
\* with pairing requests left from before the run.
Ann == <<"@", "A", "n", "n">>

AuthSenders == {Bob, Ann}

AuthEvents == [room : {"dm"}, sender : AuthSenders, ts : 1..MaxTs]

AuthInit ==
    /\ dmPolicy \in {"pairing", "allowlist"}
    /\ allowFrom \in AllowFromChoices
    /\ hasSyncToken = TRUE
    /\ startupCutoff = StartTime
    /\ lastEventTsByRoom = EmptyTs
    /\ syncFile = [nextBatch |-> Token, lastEventTsByRoom |-> EmptyTs]
    /\ pairingRequests \in SUBSET AuthSenders
    /\ storeAllowFrom = {}
    /\ handlers = <<>>
    /\ run = 1
    /\ loadOk = TRUE
    /\ alive = TRUE
    /\ account = FullAccount
    /\ SessionStart("absent")
    /\ DiskEmpty
    /\ ReplyRest
    /\ JoinRest

AuthNext ==
    \/ \E ev \in AuthEvents : Deliver(ev)
    \/ \E i \in 1..Len(handlers), hasBody \in BOOLEAN : Check(i, hasBody)
    \/ \E i \in 1..Len(handlers), hasBody \in BOOLEAN : PersistDone(i, hasBody)
    \/ \E i \in 1..Len(handlers), hasBody \in BOOLEAN : Authorize(i, TRUE, hasBody)
    \/ \E i \in 1..Len(handlers) : Upsert(i)
    \/ \E i \in 1..Len(handlers), ok \in BOOLEAN : PairReply(i, ok)
    \/ \E i \in 1..Len(handlers) : DispatchDone(i)
    \/ \E sender \in AuthSenders : Approve(sender)

AuthSpec == AuthInit /\ [][AuthNext]_vars

\* The same, with the approval surface acting between messages only
\* (ApprovalSpec): every handler that finds a sender in the approved list
\* belongs to a message that arrived after the approval.
AtRest == \A i \in 1..Len(handlers) : handlers[i].pc \in Ended

ApproveAtRest(sender) == AtRest /\ Approve(sender)

ApprovalNext ==
    \/ \E ev \in AuthEvents : Deliver(ev)
    \/ \E i \in 1..Len(handlers), hasBody \in BOOLEAN : Check(i, hasBody)
    \/ \E i \in 1..Len(handlers), hasBody \in BOOLEAN : PersistDone(i, hasBody)
    \/ \E i \in 1..Len(handlers), hasBody \in BOOLEAN : Authorize(i, TRUE, hasBody)
    \/ \E i \in 1..Len(handlers) : Upsert(i)
    \/ \E i \in 1..Len(handlers), ok \in BOOLEAN : PairReply(i, ok)
    \/ \E i \in 1..Len(handlers) : DispatchDone(i)
    \/ \E sender \in AuthSenders : ApproveAtRest(sender)

ApprovalSpec == AuthInit /\ [][ApprovalNext]_vars

\* ======================================================================
\* The sync session: monitorMatrixProvider around startMatrixSync
\* ======================================================================
\* The matrix-js-sdk client is the environment.  startClient marks the
\* client running when it is called and returns a promise that settles
\* later; stopClient marks it stopped; a running client may hand any sync
\* state to onSync at any time, with or without a next-sync token.
pipeline == <<dmPolicy, allowFrom, hasSyncToken, startupCutoff, lastEventTsByRoom,
              pairingRequests, storeAllowFrom, handlers, run, loadOk, alive>>

aborted == abortSignal = "aborted"

SyncStates == {"PREPARED", "SYNCING", "RECONNECTING", "ERROR"}

TokenNames == <<"s1", "s2", "s3">>

\* Math.random(), in hundredths
JitterRolls == {0, 50, 99}

Min(a, b) == IF a <= b THEN a ELSE b

\* initialMs * factor ** (attempt - 1), to the millisecond
RECURSIVE backoffBase(_)
backoffBase(attempt) ==
    IF attempt <= 1 THEN initialMs
    ELSE (backoffBase(attempt - 1) * factorTenths) \div 10

\* computeBackoff(SYNC_BACKOFF, attempt): the base delay, stretched by the
\* jitter share of a random roll, capped at maxMs
computeBackoff(attempt, roll) ==
    LET base == backoffBase(attempt) IN
    Min(maxMs, base + (base * jitterPercent * roll) \div 10000)

\* (variant: a round keeps the attempt number of the round before)
attemptOfRoundSame(n) == n

\* scheduleRestart: restartAttempt += 1
attemptOfRound(n) == n + 1

\* (variant: a caught-up state leaves the counter alone)
attemptAfterCaughtUpKeep(n) == n

\* onSync: Prepared / Syncing: restartAttempt = 0
attemptAfterCaughtUp(n) == 0

\* (variant: an invocation does not look at the restarting flag)
scheduleRestartUnguarded(isRestarting, roll) ==
    IF aborted
    THEN [entered |-> FALSE, restartAttempt |-> restartAttempt, delayMs |-> delayMs]
    ELSE [entered |-> TRUE,
          restartAttempt |-> attemptOfRound(restartAttempt),
          delayMs |-> computeBackoff(attemptOfRound(restartAttempt), roll)]

\* scheduleRestart up to its first await, called with `restarting` as given:
\* either it returns at once (entered = FALSE) or a backoff round begins
scheduleRestart(isRestarting, roll) ==
    IF isRestarting \/ aborted
    THEN [entered |-> FALSE, restartAttempt |-> restartAttempt, delayMs |-> delayMs]
    ELSE [entered |-> TRUE,
          restartAttempt |-> attemptOfRound(restartAttempt),
          delayMs |-> computeBackoff(attemptOfRound(restartAttempt), roll)]

\* (variant: the flag stays set when the startClient call has failed)
restartingInCatchKept == TRUE

\* scheduleRestart: catch (startErr): restarting = false
restartingInCatch == FALSE

\* (variant: the flag stays set when the sleep is cut short)
restartingAfterWakeKept == TRUE

\* scheduleRestart: catch of sleepWithAbort: restarting = false
restartingAfterWake == FALSE

\* sleepWithAbort(delayMs, signal): its promise rejects as soon as the
\* signal fires
sleepWithAbortRejectsOnAbort == TRUE

\* (variant: monitorMatrixProvider returns as soon as startMatrixSync does)
afterStartMatrixSyncNoWait(signal) == "returned"

\* monitorMatrixProvider after startMatrixSync has returned: with a signal
\* it waits for the abort, unless the signal has fired already
afterStartMatrixSync(signal) == IF signal = "armed" THEN "waitAbort" ELSE "returned"

\* startMatrixSync is awaiting the scheduleRestart cycle (line 406)
releaseMain(signal) ==
    IF mainPc = "restartWait" THEN afterStartMatrixSync(signal) ELSE mainPc

\* the abort listener of startMatrixSync (stopOnAbort) has been registered
stopOnAbortRegistered == mainPc \in {"start", "restartWait", "waitAbort", "returned"}

FirstUnseen == CHOOSE k \in 1..MaxTokens :
                   /\ tokenState[k] = "unseen"
                   /\ \A j \in 1..(k - 1) : tokenState[j] # "unseen"

SyncInit ==
    /\ dmPolicy = "open"
    /\ allowFrom = {}
    /\ hasSyncToken = FALSE
    /\ startupCutoff = StartTime
    /\ lastEventTsByRoom = EmptyTs
    /\ syncFile = [nextBatch |-> NoToken, lastEventTsByRoom |-> EmptyTs]
    /\ pairingRequests = {}
    /\ storeAllowFrom = {}
    /\ handlers = <<>>
    /\ run = 1
    /\ loadOk = TRUE
    /\ alive = TRUE
    /\ account \in Accounts
    /\ \E signal \in {"absent", "armed", "aborted"} : SessionStart(signal)
    /\ DiskEmpty
    /\ ReplyRest
    /\ JoinRest

\* resolveMatrixAccount: configured = Boolean(serverUrl && username && password)
configured(acct) == acct.serverUrl /\ acct.username /\ acct.password

\* createMatrixClient logs in with the password unless auth.json holds an
\* access token for the same server
needsLogin(cachedToken) == ~cachedToken

\* (variant: the error is caught and monitorMatrixProvider goes on)
afterStartupErrorContinues == "readMonitor"

\* nothing in monitorMatrixProvider catches an error thrown before
\* startMatrixSync: the promise of monitorMatrixProvider rejects
afterStartupError == "failed"

\* if (!account.configured) throw new Error(...)
NotConfigured ==
    /\ mainPc = "create"
    /\ ~configured(account)
    /\ startupError' = "notConfigured"
    /\ mainPc' = afterStartupError
    /\ UNCHANGED <<pipeline, join, syncFile, disk, reply, account, abortSignal, schedPc,
                   clientRunning, syncState, restartAttempt, restarting, delayMs,
                   lastError, tokenState>>

\* createMatrixClient resolves
CreateDone ==
    /\ mainPc = "create"
    /\ configured(account)
    /\ mainPc' = "readMonitor"
    /\ UNCHANGED <<pipeline, join, syncFile, disk, reply, startup, abortSignal, schedPc, clientRunning,
                   syncState, restartAttempt, restarting, delayMs, lastError,
                   tokenState>>

\* createMatrixClient rejects: the password login is refused, or a later
\* step (writing auth.json, loading the crypto) fails
CreateFail(cachedToken, reason) ==
    /\ mainPc = "create"
    /\ configured(account)
    /\ reason = "loginRejected" => needsLogin(cachedToken)
    /\ startupError' = reason
    /\ mainPc' = afterStartupError
    /\ UNCHANGED <<pipeline, join, syncFile, disk, reply, account, abortSignal, schedPc,
                   clientRunning, syncState, restartAttempt, restarting, delayMs,
                   lastError, tokenState>>

\* readMatrixSyncState of monitorMatrixProvider resolves; startMatrixSync is
\* entered and awaits its own read
ReadMonitorDone ==
    /\ mainPc = "readMonitor"
    /\ mainPc' = "readSync"
    /\ UNCHANGED <<pipeline, join, syncFile, disk, reply, startup, abortSignal, schedPc, clientRunning,
                   syncState, restartAttempt, restarting, delayMs, lastError,
                   tokenState>>

\* readMatrixSyncState of startMatrixSync resolves: the listeners are
\* registered and the first startClient call is made
ReadSyncDone ==
    /\ mainPc = "readSync"
    /\ mainPc' = "start"
    /\ clientRunning' = TRUE
    /\ UNCHANGED <<pipeline, join, syncFile, disk, reply, startup, abortSignal, schedPc, syncState,
                   restartAttempt, restarting, delayMs, lastError, tokenState>>

\* the first startClient call resolves: startMatrixSync returns
InitialStartDone ==
    /\ mainPc = "start"
    /\ mainPc' = afterStartMatrixSync(abortSignal)
    /\ UNCHANGED <<pipeline, join, syncFile, disk, reply, startup, abortSignal, schedPc, clientRunning,
                   syncState, restartAttempt, restarting, delayMs, lastError,
                   tokenState>>

\* the first startClient call rejects: await scheduleRestart(error)
InitialStartFail(roll) ==
    /\ mainPc = "start"
    /\ LET r == scheduleRestart(restarting, roll) IN
       IF r.entered
       THEN /\ restartAttempt < MaxAttempt
            /\ restarting' = TRUE
            /\ restartAttempt' = r.restartAttempt
            /\ delayMs' = r.delayMs
            /\ lastError' = "start"
            /\ schedPc' = "sleep"
            /\ mainPc' = "restartWait"
       ELSE /\ mainPc' = afterStartMatrixSync(abortSignal)
            /\ UNCHANGED <<restarting, restartAttempt, delayMs, lastError, schedPc>>
    /\ UNCHANGED <<pipeline, join, syncFile, disk, reply, startup, abortSignal, clientRunning, syncState,
                   tokenState>>

\* (variant: only the Error state is reported)
onSyncStateErrorOnly(state, status) ==
    IF state = "ERROR" THEN "state" ELSE status

\* the onSyncState callback of monitorMatrixProvider: Error reports
\* connected = false with the fixed message, Prepared and Syncing report
\* connected = true and lastError = null, any other state reports nothing
onSyncState(state, status) ==
    IF state = "ERROR" THEN "state"
    ELSE IF state \in {"PREPARED", "SYNCING"} THEN "null"
    ELSE status

\* the client hands a sync state to onSync
OnSync(state, withToken, roll) ==
    /\ clientRunning
    /\ withToken => \E k \in 1..MaxTokens : tokenState[k] = "unseen"
    /\ syncState' = state
    /\ tokenState' = IF withToken
                     THEN [tokenState EXCEPT ![FirstUnseen] = "pending"]
                     ELSE tokenState
    /\ IF state = "ERROR"
       THEN /\ clientRunning' = FALSE
            /\ LET r == scheduleRestart(restarting, roll) IN
               IF r.entered
               THEN /\ restartAttempt < MaxAttempt
                    /\ restarting' = TRUE
                    /\ restartAttempt' = r.restartAttempt
                    /\ delayMs' = r.delayMs
                    /\ lastError' = "sync"
                    /\ schedPc' = "sleep"
               ELSE /\ lastError' = onSyncState(state, lastError)
                    /\ UNCHANGED <<restarting, restartAttempt, delayMs, schedPc>>
       ELSE IF state \in {"PREPARED", "SYNCING"}
       THEN /\ restartAttempt' = attemptAfterCaughtUp(restartAttempt)
            /\ lastError' = onSyncState(state, lastError)
            /\ UNCHANGED <<clientRunning, restarting, delayMs, schedPc>>
       ELSE UNCHANGED <<clientRunning, restarting, restartAttempt, delayMs,
                        lastError, schedPc>>
    /\ UNCHANGED <<pipeline, join, syncFile, disk, reply, startup, abortSignal, mainPc>>

\* the backoff sleep ends: the abort check, then the startClient call
SleepDone ==
    /\ schedPc = "sleep"
    /\ IF aborted
       THEN /\ restarting' = FALSE
            /\ schedPc' = "woken"
            /\ mainPc' = releaseMain(abortSignal)
            /\ UNCHANGED clientRunning
       ELSE /\ schedPc' = "start"
            /\ clientRunning' = TRUE
            /\ UNCHANGED <<restarting, mainPc>>
    /\ UNCHANGED <<pipeline, join, syncFile, disk, reply, startup, abortSignal, syncState, restartAttempt,
                   delayMs, lastError, tokenState>>

\* the startClient call of a restart resolves
RestartStartDone ==
    /\ schedPc = "start"
    /\ schedPc' = "started"
    /\ restarting' = FALSE
    /\ mainPc' = releaseMain(abortSignal)
    /\ UNCHANGED <<pipeline, join, syncFile, disk, reply, startup, abortSignal, clientRunning, syncState,
                   restartAttempt, delayMs, lastError, tokenState>>

\* the startClient call of a restart rejects: restarting = false, then
\* await scheduleRestart(error)
RestartStartFail(roll) ==
    /\ schedPc = "start"
    /\ LET r == scheduleRestart(restartingInCatch, roll) IN
       IF r.entered
       THEN /\ restartAttempt < MaxAttempt
            /\ restarting' = TRUE
            /\ restartAttempt' = r.restartAttempt
            /\ delayMs' = r.delayMs
            /\ lastError' = "start"
            /\ schedPc' = "sleep"
            /\ UNCHANGED mainPc
       ELSE /\ restarting' = FALSE
            /\ schedPc' = "gaveup"
            /\ mainPc' = releaseMain(abortSignal)
            /\ UNCHANGED <<restartAttempt, delayMs, lastError>>
    /\ UNCHANGED <<pipeline, join, syncFile, disk, reply, startup, abortSignal, clientRunning, syncState,
                   tokenState>>

\* the abort signal fires: its listeners run (stopOnAbort, the listener of
\* sleepWithAbort, the listeners of monitorMatrixProvider)
Abort ==
    /\ abortSignal = "armed"
    /\ abortSignal' = "aborted"
    /\ clientRunning' = IF stopOnAbortRegistered THEN FALSE ELSE clientRunning
    /\ IF schedPc = "sleep" /\ sleepWithAbortRejectsOnAbort
       THEN /\ schedPc' = "woken"
            /\ restarting' = restartingAfterWake
       ELSE UNCHANGED <<schedPc, restarting>>
    /\ mainPc' = IF mainPc = "waitAbort" THEN "returned"
                 ELSE IF schedPc = "sleep" /\ sleepWithAbortRejectsOnAbort
                      THEN releaseMain("aborted")
                 ELSE mainPc
    /\ UNCHANGED <<pipeline, join, syncFile, disk, reply, startup, syncState, restartAttempt, delayMs,
                   lastError, tokenState>>

\* the updateMatrixSyncState call of onSync completes
TokenWriteDone(k) ==
    /\ tokenState[k] = "pending"
    /\ tokenState' = [tokenState EXCEPT ![k] = "written"]
    /\ syncFile' = updateMatrixSyncState(syncFile, patchNextBatch(syncFile, TokenNames[k]))
    /\ UNCHANGED <<pipeline, join, disk, reply, startup, abortSignal, mainPc, schedPc, clientRunning,
                   syncState, restartAttempt, restarting, delayMs, lastError>>

\* the updateMatrixSyncState call of onSync rejects (nobody awaits it)
TokenWriteFail(k) ==
    /\ tokenState[k] = "pending"
    /\ tokenState' = [tokenState EXCEPT ![k] = "failed"]
    /\ UNCHANGED <<pipeline, join, syncFile, disk, reply, startup, abortSignal, mainPc, schedPc,
                   clientRunning, syncState, restartAttempt, restarting, delayMs,
                   lastError>>

MainSettle ==
    \/ CreateDone
    \/ NotConfigured
    \/ \E cachedToken \in BOOLEAN, reason \in {"loginRejected", "other"} :
          CreateFail(cachedToken, reason)
    \/ ReadMonitorDone
    \/ ReadSyncDone
    \/ InitialStartDone
    \/ \E roll \in JitterRolls : InitialStartFail(roll)

SchedSettle ==
    \/ SleepDone
    \/ RestartStartDone
    \/ \E roll \in JitterRolls : RestartStartFail(roll)

SyncNext ==
    \/ MainSettle
    \/ SchedSettle
    \/ \E state \in SyncStates, withToken \in BOOLEAN, roll \in JitterRolls :
          OnSync(state, withToken, roll)
    \/ Abort
    \/ \E k \in 1..MaxTokens : TokenWriteDone(k)
    \/ \E k \in 1..MaxTokens : TokenWriteFail(k)

SyncSpec == SyncInit /\ [][SyncNext]_vars

\* every pending promise settles: the timer of the sleep fires, the reads
\* and the startClient calls resolve or reject
SyncFair == SyncSpec /\ WF_vars(MainSettle) /\ WF_vars(SchedSettle)

\* ======================================================================
\* Vocabulary of the properties
\* ======================================================================
Idx == 1..Len(handlers)

\* the handler has handed its message to dispatchReplyFromConfig
Dispatched(h) == h.pc \in {"dispatch", "dispatched"}

\* the handler's event went through the replay guard
Guarded(h) == h.pc \notin {"decrypt", "undecryptable", "self", "killed"}

\* the replay guard let the event through
Accepted(h) == Guarded(h) /\ h.pc \notin {"old", "prestart"}

DirectRoom(room) == JoinedMemberCount(room) <= 2

EffectiveAllowSet == resolveAllowFrom(allowFrom) \cup storeAllowFrom

SameEvent(h, g) == h.room = g.room /\ h.sender = g.sender /\ h.ts = g.ts

\* this step takes handler i through the replay guard
GuardStep(i) ==
    /\ handlers[i].pc = "decrypt"
    /\ handlers'[i].pc \notin {"decrypt", "undecryptable", "self", "killed"}

\* ---------------------------------------------------------------- C1
\* C1: a message of a direct conversation (joined member count <= 2) is
\* dispatched to the backend only if dmPolicy is open, or dmPolicy is
\* allowlist/pairing and the effective allow-set (configured allowFrom united
\* with the store's approved list) holds "*" or the sender's normalized id.
C1_DirectDispatchOnlyIfAllowed ==
    \A i \in Idx :
        LET h == handlers[i] IN
        (Dispatched(h) /\ DirectRoom(h.room)) =>
            \/ dmPolicy = "open"
            \/ /\ dmPolicy \in {"allowlist", "pairing"}
               /\ \/ Wildcard \in EffectiveAllowSet
                  \/ normalizeAllowEntry(h.sender) \in EffectiveAllowSet

\* a direct message dispatched under pairing because the store approved it
C1_Witness ==
    /\ dmPolicy = "pairing"
    /\ allowFrom = {}
    /\ \E i \in Idx :
          /\ Dispatched(handlers[i])
          /\ DirectRoom(handlers[i].room)
          /\ handlers[i].sender \in storeAllowFrom

\* ---------------------------------------------------------------- C2
\* C2: under dmPolicy disabled every direct message is dropped: none reaches
\* the allow-list check, the pairing store, a pairing reply or the backend,
\* and no pairing request exists, whatever allowFrom and the store hold.
C2_DisabledDropsEveryDm ==
    dmPolicy = "disabled" =>
        /\ pairingRequests = {}
        /\ \A i \in Idx :
              DirectRoom(handlers[i].room) =>
                  handlers[i].pc \in {"decrypt", "undecryptable", "self", "old",
                                      "prestart", "persist", "writefail",
                                      "disabled", "killed"}

\* a direct message of a sender the lists approve, dropped under disabled
C2_Witness ==
    /\ dmPolicy = "disabled"
    /\ \/ Wildcard \in EffectiveAllowSet
       \/ Bob \in EffectiveAllowSet
    /\ \E i \in Idx :
          /\ handlers[i].pc = "disabled"
          /\ handlers[i].sender = Bob
          /\ DirectRoom(handlers[i].room)

\* ---------------------------------------------------------------- C3
\* C3 as stated: an event whose timestamp is <= the last-seen timestamp of
\* its conversation is rejected (nothing recorded, the handler ends), and an
\* event with a greater timestamp in a conversation with a last-seen entry
\* is accepted and sets last-seen to its timestamp.
C3_Original ==
    [][\A i \in Idx :
          GuardStep(i) =>
              LET h == handlers[i]
                  seen == lastEventTsByRoom[h.room]
              IN
              /\ (seen > 0 /\ h.ts <= seen) =>
                    /\ handlers'[i].pc = "old"
                    /\ lastEventTsByRoom' = lastEventTsByRoom
                    /\ syncFile' = syncFile
              /\ (seen > 0 /\ h.ts > seen) =>
                    /\ handlers'[i].pc \notin {"old", "prestart"}
                    /\ lastEventTsByRoom'[h.room] = h.ts]_vars

\* C3 amended: the same for events with a positive timestamp; an event with
\* timestamp 0 is never rejected by the guard.
C3_ReplayGuardPositiveTs ==
    [][\A i \in Idx :
          GuardStep(i) =>
              LET h == handlers[i]
                  seen == lastEventTsByRoom[h.room]
              IN
              /\ (h.ts > 0 /\ seen > 0 /\ h.ts <= seen) =>
                    /\ handlers'[i].pc = "old"
                    /\ lastEventTsByRoom' = lastEventTsByRoom
                    /\ syncFile' = syncFile
              /\ (seen > 0 /\ h.ts > seen) =>
                    /\ handlers'[i].pc \notin {"old", "prestart"}
                    /\ lastEventTsByRoom'[h.room] = h.ts]_vars

\* after a restart that reloaded the checkpoint, an event with the recorded
\* timestamp itself (a tie) has been rejected
C3_Witness ==
    /\ run = 2
    /\ loadOk
    /\ \E i, j \in Idx :
          /\ handlers[i].run = 1 /\ handlers[i].pc = "dispatched"
          /\ handlers[j].run = 2 /\ handlers[j].pc = "old"
          /\ handlers[j].room = handlers[i].room
          /\ handlers[j].ts = handlers[i].ts
          /\ handlers[j].seen = handlers[j].ts

\* ---------------------------------------------------------------- C4
PairingReplyAttempted(h) == h.pc \in {"pairreply", "paired", "pairfail"}

\* handlers of sender s that the pairing branch has finished with
PairingEnded(s) ==
    {i \in Idx : handlers[i].sender = s
                 /\ handlers[i].pc \in {"paired", "pairfail", "pending"}}

\* C4 as stated: under pairing, of the direct messages of one non-approved
\* sender that went through the pairing branch, exactly one had the pairing
\* reply sent, and it is the first delivered of them.
C4_Original ==
    \A s \in Senders :
        (dmPolicy = "pairing" /\ PairingEnded(s) # {}) =>
            /\ Cardinality({i \in PairingEnded(s) : handlers[i].pc = "paired"}) = 1
            /\ \A i \in PairingEnded(s) :
                  handlers[i].pc = "paired" =>
                      \A j \in PairingEnded(s) : i <= j

\* C4 amended: for one sender at most one message ever gets a pairing reply
\* attempted (the one whose upsert created the request), only under pairing
\* and only once the request exists; every other message of the sender that
\* reaches the pairing branch ends with no reply.
C4_AtMostOnePairingReply ==
    \A s \in Senders :
        LET tried == {i \in Idx : handlers[i].sender = s
                                  /\ PairingReplyAttempted(handlers[i])}
        IN
        /\ Cardinality(tried) <= 1
        /\ tried # {} => (dmPolicy = "pairing" /\ s \in pairingRequests)

\* two direct messages of the same unknown sender: the first got the reply,
\* the second was dropped without one
C4_Witness ==
    /\ dmPolicy = "pairing"
    /\ \E i, j \in Idx :
          /\ i < j
          /\ handlers[i].sender = handlers[j].sender
          /\ handlers[i].pc = "paired"
          /\ handlers[j].pc = "pending"

\* ---------------------------------------------------------------- C5
\* C5: for every conversation the last-seen timestamp never decreases:
\* the in-memory map within a run, the persisted checkpoint at all times.
C5_LastSeenMonotonic ==
    [][\A r \in Rooms :
          /\ run' = run => lastEventTsByRoom'[r] >= lastEventTsByRoom[r]
          /\ syncFile'.lastEventTsByRoom[r] >= syncFile.lastEventTsByRoom[r]]_vars

\* ---------------------------------------------------------------- C6
\* the first pass ran to its end: no handler was cut off, no write failed
FirstPassClean ==
    \A i \in Idx :
        handlers[i].run = 1 => handlers[i].pc \in Ended \ {"killed", "writefail"}

\* C6: in a second run that loaded the checkpoint of a finished first pass,
\* no event (positive timestamp) that went through the guard in the first
\* pass is accepted again.
C6_ReplayAcceptsNothing ==
    (run = 2 /\ loadOk /\ FirstPassClean) =>
        \A i, j \in Idx :
            ( /\ handlers[i].run = 1 /\ Guarded(handlers[i])
              /\ handlers[j].run = 2
              /\ SameEvent(handlers[i], handlers[j])
              /\ handlers[i].ts > 0 )
            => ~Accepted(handlers[j])

\* ---------------------------------------------------------------- C7
\* C7 as stated: with no stored sync token and no last-seen entry, an event
\* earlier than the session start is rejected and one at or after it is
\* accepted; with a stored sync token the cutoff is never applied.
C7_Original ==
    [][\A i \in Idx :
          GuardStep(i) =>
              LET h == handlers[i]
                  seen == lastEventTsByRoom[h.room]
              IN
              /\ (~hasSyncToken /\ seen = 0 /\ h.ts < startupCutoff) =>
                    handlers'[i].pc = "prestart"
              /\ (~hasSyncToken /\ seen = 0 /\ h.ts >= startupCutoff) =>
                    handlers'[i].pc \notin {"old", "prestart"}
              /\ hasSyncToken => handlers'[i].pc # "prestart"]_vars

\* C7 amended: the rejection holds for events with a positive timestamp.
C7_StartupCutoffPositiveTs ==
    [][\A i \in Idx :
          GuardStep(i) =>
              LET h == handlers[i]
                  seen == lastEventTsByRoom[h.room]
              IN
              /\ (~hasSyncToken /\ seen = 0 /\ h.ts > 0 /\ h.ts < startupCutoff) =>
                    handlers'[i].pc = "prestart"
              /\ (~hasSyncToken /\ seen = 0 /\ h.ts >= startupCutoff) =>
                    handlers'[i].pc \notin {"old", "prestart"}
              /\ hasSyncToken => handlers'[i].pc # "prestart"]_vars

\* without a token: one event before the start rejected, one at the start
\* accepted, both in a conversation with no last-seen entry
C7_Witness ==
    /\ ~hasSyncToken
    /\ \E i, j \in Idx :
          /\ handlers[i].run = run /\ handlers[j].run = run
          /\ handlers[i].pc = "prestart" /\ handlers[i].ts < startupCutoff
          /\ handlers[j].seen = 0 /\ handlers[j].ts >= startupCutoff
          /\ Accepted(handlers[j])

\* ---------------------------------------------------------------- C8
\* between the replay/authorization steps and the end of the dispatch
InPipeline(h) ==
    h.run = run /\ h.pc \in {"persist", "allow", "upsert", "pairreply", "dispatch"}

\* C8: no two events of the account are inside handleMatrixEvent, between
\* the replay/authorization steps and the end of their dispatch, together.
C8_HandlersSequential ==
    \A i, j \in Idx :
        i # j => ~(InPipeline(handlers[i]) /\ InPipeline(handlers[j]))

\* ---------------------------------------------------------------- C9
\* C9: a later-delivered event of a conversation never goes through the
\* replay guard while an earlier-delivered event of the same conversation
\* is still waiting in front of it (awaiting decryption).
C9_ConversationOrder ==
    \A i, j \in Idx :
        ( /\ i < j
          /\ handlers[i].run = run /\ handlers[j].run = run
          /\ handlers[i].room = handlers[j].room
          /\ Guarded(handlers[j]) )
        => handlers[i].pc # "decrypt"

\* ---------------------------------------------------------------- C10
\* C10: within one run no event with a positive timestamp is dispatched
\* twice, also when it is delivered twice and its handlers interleave.
C10_NoDoubleDispatch ==
    \A i, j \in Idx :
        ( /\ i # j
          /\ handlers[i].run = handlers[j].run
          /\ SameEvent(handlers[i], handlers[j])
          /\ handlers[i].ts > 0 )
        => ~(Dispatched(handlers[i]) /\ Dispatched(handlers[j]))

\* the same event delivered twice in one run: dispatched once, rejected once
C10_Witness ==
    \E i, j \in Idx :
        /\ i # j
        /\ handlers[i].run = handlers[j].run
        /\ SameEvent(handlers[i], handlers[j])
        /\ handlers[i].ts > 0
        /\ handlers[i].pc = "dispatched"
        /\ handlers[j].pc = "old"
        /\ handlers[j].seen = handlers[j].ts

\* ======================================================================
\* writeJsonFile on the file system
\* ======================================================================
\* A file is a record [content, mode], Absent where no file exists; a
\* content is a sequence of characters.  writeFile is not atomic: the file grows character by
\* character.  rename is atomic.  A crash ends every call in flight and
\* leaves the files as they are.
JsonValues == {"a", "b"}
OldValue == "o"

\* `${JSON.stringify(value, null, 2)}\n`
serialize(value) == <<"{", value, "}", "\n">>

\* (variant: the content is written to the target path itself)
tmpPathInPlace(uuid) == TargetPath

\* path.join(dir, `${basename}.${crypto.randomUUID()}.tmp`)
tmpPath(uuid) == TmpPaths[uuid]

LiveWriter(i) == writers[i].pc \in {"mkdir", "write", "chmod", "rename"}

SetWriterPc(i, pc) == writers' = [writers EXCEPT ![i].pc = pc]

FileInit ==
    /\ dmPolicy = "open"
    /\ allowFrom = {}
    /\ hasSyncToken = FALSE
    /\ startupCutoff = StartTime
    /\ lastEventTsByRoom = EmptyTs
    /\ syncFile = [nextBatch |-> NoToken, lastEventTsByRoom |-> EmptyTs]
    /\ pairingRequests = {}
    /\ storeAllowFrom = {}
    /\ handlers = <<>>
    /\ run = 1
    /\ loadOk = TRUE
    /\ alive = TRUE
    /\ account = FullAccount
    /\ SessionStart("absent")
    /\ ReplyRest
    /\ JoinRest
    /\ writers = <<>>
    /\ \/ DiskEmpty
       \/ /\ dirExists = TRUE
          /\ files = [p \in Paths |->
                IF p = TargetPath
                THEN [content |-> serialize(OldValue), mode |-> "0600"]
                ELSE Absent]

\* writeJsonFile(filePath, value) is called
BeginWrite(value) ==
    /\ Len(writers) < MaxWriters
    /\ writers' = Append(writers,
          [value |-> value, tmp |-> tmpPath(Len(writers) + 1), pc |-> "mkdir"])
    /\ UNCHANGED <<pipeline, join, syncFile, session, reply, files, dirExists>>

\* fs.promises.mkdir(dir, { recursive: true, mode: 0o700 }) resolves
Mkdir(i) ==
    /\ writers[i].pc = "mkdir"
    /\ dirExists' = TRUE
    /\ SetWriterPc(i, "write")
    /\ UNCHANGED <<pipeline, join, syncFile, session, reply, files>>

\* fs.promises.writeFile(tmp, ...): the file is created, then grows by one
\* character per step; the call resolves when the content is complete
WriteChunk(i) ==
    /\ writers[i].pc = "write"
    /\ dirExists
    /\ LET w == writers[i]
           full == serialize(w.value)
           sofar == IF files[w.tmp] = Absent THEN <<>> ELSE files[w.tmp].content
       IN
       IF files[w.tmp] = Absent
       THEN /\ files' = [files EXCEPT ![w.tmp] = [content |-> <<>>, mode |-> "0644"]]
            /\ UNCHANGED writers
       ELSE /\ files' = [files EXCEPT ![w.tmp].content = SubSeq(full, 1, Len(sofar) + 1)]
            /\ writers' = [writers EXCEPT ![i].pc =
                  IF Len(sofar) + 1 = Len(full) THEN "chmod" ELSE "write"]
    /\ UNCHANGED <<pipeline, join, syncFile, session, reply, dirExists>>

\* fs.promises.chmod(tmp, 0o600) resolves
Chmod(i) ==
    /\ writers[i].pc = "chmod"
    /\ files' = [files EXCEPT ![writers[i].tmp].mode = "0600"]
    /\ SetWriterPc(i, "rename")
    /\ UNCHANGED <<pipeline, join, syncFile, session, reply, dirExists>>

\* fs.promises.rename(tmp, filePath) resolves: the target is replaced in one
\* step and the temp path is gone
Rename(i) ==
    /\ writers[i].pc = "rename"
    /\ LET tmp == writers[i].tmp IN
       files' = [p \in Paths |->
                   IF p = TargetPath THEN files[tmp]
                   ELSE IF p = tmp THEN Absent
                   ELSE files[p]]
    /\ SetWriterPc(i, "done")
    /\ UNCHANGED <<pipeline, join, syncFile, session, reply, dirExists>>

\* the pending fs call of writeJsonFile rejects: writeJsonFile rejects
IoFail(i) ==
    /\ LiveWriter(i)
    /\ SetWriterPc(i, "failed")
    /\ UNCHANGED <<pipeline, join, syncFile, session, reply, files, dirExists>>

\* the process dies: every call in flight ends where it is
Crash ==
    /\ \E i \in 1..Len(writers) : LiveWriter(i)
    /\ writers' = [i \in 1..Len(writers) |->
          IF LiveWriter(i) THEN [writers[i] EXCEPT !.pc = "crashed"] ELSE writers[i]]
    /\ UNCHANGED <<pipeline, join, syncFile, session, reply, files, dirExists>>

FileNext ==
    \/ \E value \in JsonValues : BeginWrite(value)
    \/ \E i \in 1..Len(writers) : Mkdir(i)
    \/ \E i \in 1..Len(writers) : WriteChunk(i)
    \/ \E i \in 1..Len(writers) : Chmod(i)
    \/ \E i \in 1..Len(writers) : Rename(i)
    \/ \E i \in 1..Len(writers) : IoFail(i)
    \/ Crash

FileSpec == FileInit /\ [][FileNext]_vars

\* ========================================================================
\* The replies to one inbound message (ReplySpec): the message has reached
\* dispatchReplyFromConfig; its payloads are delivered one deliver call each.
\* ========================================================================
MaxPayloads == 2        \* reply payloads the backend produces for the message
MaxUrls == 2            \* media urls of one payload

\* resolveTextChunkLimit(cfg, "matrix", accountId), in characters
textChunkLimit == 2

\* payload.text: none, one that fits the limit, one that needs two chunks
Texts == {<<>>, <<"a">>, <<"a", "b", "c">>}

\* info.kind of the dispatcher for a payload
Kinds == {"block", "final"}

Payloads == [kind : Kinds, text : Texts, urls : 0..MaxUrls]

PayloadSeqs == UNION {[1..n -> Payloads] : n \in 0..MaxPayloads}

\* chunkText: consecutive pieces of at most limit characters, none for an
\* empty text
RECURSIVE chunkText(_, _)
chunkText(text, limit) ==
    IF text = <<>> THEN <<>>
    ELSE IF Len(text) <= limit THEN <<text>>
    ELSE <<SubSeq(text, 1, limit)>> \o chunkText(SubSeq(text, limit + 1, Len(text)), limit)

\* (variant: the parts are taken from the end)
partAtReversed(parts, k) == parts[Len(parts) - k + 1]

\* for (const x of xs): the k-th pass takes the k-th element
partAt(parts, k) == parts[k]

\* deliverReplies for one payload: the sends it makes when none fails: one
\* sendMatrixMedia per url, each with payload.text, or one sendMatrixText
\* per chunk
sendsOf(payload) ==
    IF payload.urls > 0
    THEN [k \in 1..payload.urls |-> [media |-> k, text |-> payload.text]]
    ELSE LET chunks == chunkText(payload.text, textChunkLimit) IN
         [k \in 1..Len(chunks) |-> [media |-> 0, text |-> chunks[k]]]

\* onReplyStart: client.sendTyping(roomId, true, 20_000)
onReplyStartTyping == TRUE

\* (variant: onIdle sends typing = true)
onIdleTypingStays == TRUE

\* onIdle: client.sendTyping(roomId, false, 0)
onIdleTyping == FALSE

\* (variant: onError reports nothing of the payload)
onErrorNoKind(kind) == "reply"

\* onError: runtime.error(`matrix ${info.kind} reply failed: ...`)
onError(kind) == kind

\* the dispatcher after a deliver call that rejected: the error goes to
\* onError and the next payload is taken
afterDeliverError == "next"

ReplyInit ==
    /\ dmPolicy = "open"
    /\ allowFrom = {}
    /\ hasSyncToken = FALSE
    /\ startupCutoff = StartTime
    /\ lastEventTsByRoom = EmptyTs
    /\ syncFile = [nextBatch |-> NoToken, lastEventTsByRoom |-> EmptyTs]
    /\ pairingRequests = {}
    /\ storeAllowFrom = {}
    /\ handlers = <<>>
    /\ run = 1
    /\ loadOk = TRUE
    /\ alive = TRUE
    /\ account = FullAccount
    /\ SessionStart("absent")
    /\ DiskEmpty
    /\ replies \in PayloadSeqs
    /\ dpc = "start"
    /\ cur = [p |-> 0, k |-> 0]
    /\ sentLog = <<>>
    /\ errorSink = <<>>
    /\ typingCalls = <<>>
    /\ outboundActivity = 0
    /\ JoinRest

\* dispatchReplyFromConfig is called; the reply starts: onReplyStart
ReplyStart ==
    /\ dpc = "start"
    /\ typingCalls' = Append(typingCalls, onReplyStartTyping)
    /\ dpc' = "typing"
    /\ UNCHANGED <<pipeline, join, syncFile, session, disk, replies, cur, sentLog, errorSink,
                   outboundActivity>>

\* the sendTyping call of onReplyStart resolves, or rejects and is caught
TypingSettled(ok) ==
    /\ dpc = "typing"
    /\ dpc' = "next"
    /\ UNCHANGED <<pipeline, join, syncFile, session, disk, replies, cur, sentLog, errorSink,
                   typingCalls, outboundActivity>>

\* the dispatcher takes the next payload and calls deliver, which calls
\* deliverReplies([payload]) and so makes the payload's first send; after
\* the last payload dispatchReplyFromConfig resolves
NextPayload ==
    /\ dpc = "next"
    /\ IF cur.p = Len(replies)
       THEN /\ dpc' = "resolved"
            /\ UNCHANGED cur
       ELSE LET q == cur.p + 1 IN
            IF sendsOf(replies[q]) = <<>>
            THEN /\ cur' = [p |-> q, k |-> 0]
                 /\ dpc' = "next"
            ELSE /\ cur' = [p |-> q, k |-> 1]
                 /\ dpc' = "send"
    /\ UNCHANGED <<pipeline, join, syncFile, session, disk, replies, sentLog, errorSink,
                   typingCalls, outboundActivity>>

\* recordChannelActivity({direction: "outbound"}): one more recorded
recordChannelActivity(count) == count + 1

\* (variant: the activity is recorded whether or not the send succeeded)
activityAfterSendAlways(ok, count) == recordChannelActivity(count)

\* deliverReplies: recordChannelActivity is the statement after the awaited
\* send, so a send that throws skips it
activityAfterSend(ok, count) ==
    IF ok THEN recordChannelActivity(count) ELSE count

\* the send in flight resolves: the loop goes on to the next part, or
\* deliverReplies returns.  It rejects: deliverReplies throws, the rest of
\* the payload is not sent, and the dispatcher reports to onError.
SendSettled(ok) ==
    /\ dpc = "send"
    /\ LET parts == sendsOf(replies[cur.p])
           part == partAt(parts, cur.k)
       IN
       /\ sentLog' = Append(sentLog,
             [p |-> cur.p, k |-> cur.k, media |-> part.media, text |-> part.text,
              ok |-> ok])
       /\ IF ok
          THEN /\ UNCHANGED errorSink
               /\ IF cur.k < Len(parts)
                  THEN /\ cur' = [cur EXCEPT !.k = cur.k + 1]
                       /\ dpc' = "send"
                  ELSE /\ UNCHANGED cur
                       /\ dpc' = "next"
          ELSE /\ errorSink' = Append(errorSink, onError(replies[cur.p].kind))
               /\ UNCHANGED cur
               /\ dpc' = afterDeliverError
    /\ outboundActivity' = activityAfterSend(ok, outboundActivity)
    /\ UNCHANGED <<pipeline, join, syncFile, session, disk, replies, typingCalls>>

\* markDispatchIdle after the await of dispatchReplyFromConfig: onIdle
\* starts client.sendTyping(roomId, false, 0) and does not wait for it
MarkIdle ==
    /\ dpc = "resolved"
    /\ typingCalls' = Append(typingCalls, onIdleTyping)
    /\ dpc' = "idle"
    /\ UNCHANGED <<pipeline, join, syncFile, session, disk, replies, cur, sentLog, errorSink,
                   outboundActivity>>

ReplyNext ==
    \/ ReplyStart
    \/ \E ok \in BOOLEAN : TypingSettled(ok)
    \/ NextPayload
    \/ \E ok \in BOOLEAN : SendSettled(ok)
    \/ MarkIdle

ReplySpec == ReplyInit /\ [][ReplyNext]_vars

\* every pending await settles and the backend's stream ends
ReplyFair == ReplySpec /\ WF_vars(ReplyNext)

\* ========================================================================
\* Invites (JoinSpec): the allow-list of rooms to join is computed from the
\* configured entries at the start; every RoomMember event goes through
\* handleAutoJoinInvite.
\* ========================================================================
MaxPatterns == 2        \* entries of account.config.autoJoinRooms
MaxInvites == 1         \* RoomMember events handled

\* entries as they may be typed into the configuration
RawAutoJoinEntries ==
    {<<"!", "*", ":", "x">>, <<" ", "!", "A", ":", "X", " ">>, <<"@", "b", ":", "y">>, <<"#", "*", ":", "y">>,
     <<"*", ":", "x">>, <<"!", "*", ":">>, <<"a", ":", "x">>, <<"!", "*", ":", "x", ":", "8">>}

AutoJoinConfigs == UNION {[1..n -> RawAutoJoinEntries] : n \in 0..MaxPatterns}

\* what an invite carries: the room id, the room's aliases, the inviter
RoomIds == {<<"!", "a", ":", "x">>, <<"!", "A", ":", "y">>, <<"!", "b", ":", "y">>, <<"!", "a", ":", "x", ":", "8">>}
AliasLists == {<<>>, <<<<"#", "r", ":", "y">>>>, <<<<"#", "r", ":", "x">>, <<"#", "R", ":", "Y">>>>}
InviterIds == {<<>>, <<"@", "b", ":", "y">>, <<"@", "B", ":", "x">>}

\* String.prototype.indexOf for a one-character needle (0: not found)
RECURSIVE indexFrom(_, _, _)
indexFrom(s, ch, k) ==
    IF k > Len(s) THEN 0
    ELSE IF s[k] = ch THEN k
    ELSE indexFrom(s, ch, k + 1)

\* String.prototype.slice(n) with the characters counted from 0
sliceFrom(s, n) == SubSeq(s, n + 1, Len(s))

WildcardPrefixes == {<<"!", "*", ":">>, <<"#", "*", ":">>, <<"@", "*", ":">>}

Sigils == {"!", "#", "@"}

startsWithWildcard(s) == \E w \in WildcardPrefixes : startsWith(s, w)

\* normalizeAutoJoinEntry; <<>> stands for null (both are dropped by the
\* filter of normalizeAutoJoinAllowlist)
normalizeAutoJoinEntry(raw) ==
    LET trimmed == trim(raw)
        normalized == toLowerCase(trimmed)
    IN
    IF trimmed = <<>> THEN <<>>
    ELSE IF startsWith(normalized, <<"*", ":">>) THEN <<>>
    ELSE IF startsWithWildcard(normalized)
         THEN IF trim(sliceFrom(normalized, 3)) # <<>> THEN normalized ELSE <<>>
    ELSE IF normalized[1] \in Sigils THEN normalized
    ELSE <<>>

RECURSIVE filterNonEmpty(_)
filterNonEmpty(seq) ==
    IF seq = <<>> THEN <<>>
    ELSE (IF Head(seq) = <<>> THEN <<>> ELSE <<Head(seq)>>) \o filterNonEmpty(Tail(seq))

normalizeAutoJoinAllowlist(entries) ==
    filterNonEmpty([k \in 1..Len(entries) |-> normalizeAutoJoinEntry(entries[k])])

\* (variant: the domain is what follows the last ":")
extractMatrixDomainLast(value) ==
    LET colons == {k \in 1..Len(value) : value[k] = ":"} IN
    IF colons = {} THEN <<>>
    ELSE sliceFrom(value, CHOOSE k \in colons : \A j \in colons : j <= k)

extractMatrixDomain(value) ==
    LET idx == indexFrom(value, ":", 1) IN
    IF idx = 0 THEN <<>> ELSE sliceFrom(value, idx)

matchesAutoJoinEntry(entry, candidate) ==
    LET normalized == toLowerCase(trim(candidate)) IN
    IF normalized = <<>> THEN FALSE
    ELSE IF startsWithWildcard(entry)
         THEN IF normalized[1] # entry[1] THEN FALSE
              ELSE LET domain == extractMatrixDomain(normalized)
                       entryDomain == sliceFrom(entry, 3)
                   IN domain # <<>> /\ domain = entryDomain
    ELSE normalized = entry

\* the pairs the two loops of shouldAutoJoinInvite can stop at
matchingPairs(allowlist, candidates) ==
    {pr \in (1..Len(allowlist)) \X (1..Len(candidates)) :
        matchesAutoJoinEntry(allowlist[pr[1]], candidates[pr[2]])}

\* (variant: every candidate has to match an entry)
shouldAutoJoinInviteAll(allowlist, candidates) ==
    /\ Len(allowlist) # 0
    /\ \A c \in 1..Len(candidates) :
          \E e \in 1..Len(allowlist) : <<e, c>> \in matchingPairs(allowlist, candidates)

shouldAutoJoinInvite(allowlist, candidates) ==
    /\ Len(allowlist) # 0
    /\ matchingPairs(allowlist, candidates) # {}

\* the allow-list handleAutoJoinInvite works with
autoJoinAllowlist == normalizeAutoJoinAllowlist(autoJoinRooms)

JoinInit ==
    /\ dmPolicy = "open"
    /\ allowFrom = {}
    /\ hasSyncToken = FALSE
    /\ startupCutoff = StartTime
    /\ lastEventTsByRoom = EmptyTs
    /\ syncFile = [nextBatch |-> NoToken, lastEventTsByRoom |-> EmptyTs]
    /\ pairingRequests = {}
    /\ storeAllowFrom = {}
    /\ handlers = <<>>
    /\ run = 1
    /\ loadOk = TRUE
    /\ alive = TRUE
    /\ account = FullAccount
    /\ SessionStart("absent")
    /\ DiskEmpty
    /\ ReplyRest
    /\ autoJoinRooms \in AutoJoinConfigs
    /\ invites = <<>>

\* a RoomMember event: handleAutoJoinInvite up to the joinRoom call
Invite(membership, userId, roomId, aliases, inviterId) ==
    /\ Len(invites) < MaxInvites
    /\ LET candidates == filterNonEmpty(<<roomId>> \o aliases \o <<trim(inviterId)>>)
           considered == /\ Len(autoJoinAllowlist) # 0
                         /\ membership = "invite"
                         /\ userId = SelfId
       IN invites' = Append(invites,
             [candidates |-> candidates,
              considered |-> considered,
              hits |-> IF considered THEN matchingPairs(autoJoinAllowlist, candidates)
                       ELSE {},
              pc |-> IF considered /\ shouldAutoJoinInvite(autoJoinAllowlist, candidates)
                     THEN "joining" ELSE "ignored"])
    /\ UNCHANGED <<pipeline, syncFile, session, disk, reply, autoJoinRooms>>

\* client.joinRoom resolves, or rejects and the error is reported
JoinSettled(i, ok) ==
    /\ invites[i].pc = "joining"
    /\ invites' = [invites EXCEPT ![i].pc = IF ok THEN "joined" ELSE "joinfail"]
    /\ UNCHANGED <<pipeline, syncFile, session, disk, reply, autoJoinRooms>>

JoinNext ==
    \/ \E membership \in {"invite", "join"}, userId \in {SelfId, Bob},
          roomId \in RoomIds, aliases \in AliasLists, inviterId \in InviterIds :
          Invite(membership, userId, roomId, aliases, inviterId)
    \/ \E i \in 1..Len(invites), ok \in BOOLEAN : JoinSettled(i, ok)

JoinSpec == JoinInit /\ [][JoinNext]_vars

\* ======================================================================
\* Properties of the sync session
\* ======================================================================
\* startMatrixSync has made its first startClient call
SessionStarted == mainPc \in {"start", "restartWait", "waitAbort", "returned"}

\* a scheduleRestart cycle is in its sleep or in its startClient call
RestartPending == schedPc \in {"sleep", "start"}

\* ---------------------------------------------------------------- C11
\* C11: while the session is not cancelled, a client stopped after a sync
\* Error always has a restart on its way (a backoff sleep or a startClient
\* call of scheduleRestart), also when the Error arrived during a restart.
C11_StoppedClientHasRestartPending ==
    (~aborted /\ SessionStarted /\ ~clientRunning) => RestartPending

\* ---------------------------------------------------------------- C12
\* C12: when the startClient call of a restart fails and the session is not
\* cancelled, a new backoff round begins with the attempt counter one higher
\* and the failure handed to onError; startMatrixSync does not reject and
\* stays waiting where it was.
C12_StartFailureBeginsNextRound ==
    [][(schedPc = "start" /\ schedPc' \notin {"start", "started"} /\ ~aborted) =>
          /\ schedPc' = "sleep"
          /\ restarting'
          /\ restartAttempt' = restartAttempt + 1
          /\ lastError' = "start"
          /\ mainPc' = mainPc
          /\ mainPc' # "failed"]_vars

\* three start failures in a row (the first start and two restarts), with
\* no sync state ever reported, and the next round sleeping
C12_Witness ==
    /\ ~aborted
    /\ syncState = "NONE"
    /\ schedPc = "sleep"
    /\ restartAttempt = 3
    /\ lastError = "start"
    /\ mainPc = "restartWait"

\* ---------------------------------------------------------------- C13
\* this step begins a backoff round (scheduleRestart reaches its sleep)
RoundBegins == schedPc # "sleep" /\ schedPc' = "sleep"

\* C13: every backoff round uses the attempt number of the round before plus
\* one; its delay never exceeds maxMs, the first delay lies between initialMs
\* and initialMs plus the jitter share, and with no caught-up state since the
\* round before (the counter was not reset) the delay is not smaller than
\* the delay of the round before.
C13_BackoffNonDecreasingToCap ==
    [][RoundBegins =>
          /\ restartAttempt' = restartAttempt + 1
          /\ delayMs' <= maxMs
          /\ restartAttempt' = 1 =>
                /\ delayMs' >= initialMs
                /\ delayMs' <= initialMs + (initialMs * jitterPercent) \div 100
          /\ restartAttempt >= 1 => delayMs' >= delayMs]_vars

\* seven failures in a row: the round sleeps for the capped delay
C13_Witness ==
    /\ schedPc = "sleep"
    /\ restartAttempt = 7
    /\ delayMs = maxMs
    /\ syncState \notin {"PREPARED", "SYNCING"}

\* ---------------------------------------------------------------- C14
\* this step hands onSync a caught-up state different from the one before
BecomesCaughtUp ==
    syncState' \in {"PREPARED", "SYNCING"} /\ syncState' # syncState

\* C14: when the sync state becomes Prepared or Syncing the attempt counter
\* is 0 afterwards, whatever it was; and a round that begins with the counter
\* at 0 uses attempt 1 and a delay in the initial range.
C14_CaughtUpResetsAttempt ==
    [][/\ BecomesCaughtUp => restartAttempt' = 0
       /\ (RoundBegins /\ restartAttempt = 0) =>
             /\ restartAttempt' = 1
             /\ delayMs' >= initialMs
             /\ delayMs' <= initialMs + (initialMs * jitterPercent) \div 100]_vars

\* a caught-up state that followed several failures (the latest delay was
\* beyond the initial range): the counter is back at 0
C14_Witness ==
    /\ restartAttempt = 0
    /\ syncState \in {"PREPARED", "SYNCING"}
    /\ delayMs > 2 * initialMs
    /\ schedPc = "started"

\* ---------------------------------------------------------------- C15
\* this step makes a startClient call: the first one of startMatrixSync or
\* the one of scheduleRestart
StartCallBegins ==
    \/ mainPc = "readSync" /\ mainPc' = "start"
    \/ schedPc = "sleep" /\ schedPc' = "start"

\* C15: once the abort signal has fired no startClient call is made, neither
\* the first start nor a restart.
C15_NoStartAfterAbort ==
    [][aborted => ~StartCallBegins]_vars

\* ---------------------------------------------------------------- C16
\* C16: the step in which the abort signal fires leaves the client stopped,
\* and a client stopped after the abort is never running again.
C16_AbortStopsClientForGood ==
    [][/\ (~aborted /\ aborted') => ~clientRunning'
       /\ (aborted /\ ~clientRunning) => ~clientRunning']_vars

\* ---------------------------------------------------------------- C17
\* C17: when the abort signal fires during the backoff sleep, the same step
\* ends the sleep: scheduleRestart has returned, restarting is cleared and no
\* startClient call is made; the ended cycle stays ended.
C17_AbortEndsBackoffSleep ==
    [][/\ (~aborted /\ aborted' /\ schedPc = "sleep") =>
             /\ schedPc' = "woken"
             /\ ~restarting'
             /\ ~StartCallBegins
             /\ UNCHANGED <<restartAttempt, delayMs>>
       /\ schedPc = "woken" => (schedPc' = "woken" /\ ~restarting')]_vars

\* the signal fired during the sleep of the cycle startMatrixSync was
\* waiting for: the cycle has ended, the flag is clear, the client was not
\* started again and monitorMatrixProvider has returned
C17_Witness ==
    /\ aborted
    /\ schedPc = "woken"
    /\ ~restarting
    /\ ~clientRunning
    /\ restartAttempt >= 2
    /\ mainPc = "returned"

\* ---------------------------------------------------------------- C18
\* C18: with an abort signal supplied, monitorMatrixProvider has returned
\* only if the signal has fired; and once the signal has fired after a
\* successful startup (createMatrixClient resolved), it does return.
C18_RunsUntilAbort ==
    /\ []((mainPc = "returned" /\ abortSignal # "absent") => aborted)
    /\ ((aborted /\ mainPc \notin {"create", "failed"}) ~> (mainPc = "returned"))

\* a session that went through a sync Error and a restart, and returned
\* after the signal fired
C18_Witness ==
    /\ aborted
    /\ mainPc = "returned"
    /\ schedPc = "started"
    /\ lastError = "sync"
    /\ ~clientRunning

\* ---------------------------------------------------------------- C19
\* this step makes the startClient call of a restart
RestartCallBegins == schedPc = "sleep" /\ schedPc' = "start"

\* C19: when the startClient call of a restart begins, every next-sync token
\* handed to onSync so far has been written to sync.json.
C19_TokenPersistedBeforeRestart ==
    [][RestartCallBegins =>
          \A k \in 1..MaxTokens : tokenState[k] \in {"unseen", "written"}]_vars

\* ---------------------------------------------------------------- C20
\* the contents a reader may find complete: the one the directory started
\* with and those of the writeJsonFile calls made so far
WrittenValues == {OldValue} \cup {writers[i].value : i \in 1..Len(writers)}

\* C20: in every state, so also after a crash between any two steps of a
\* write, the file at the target path is absent or holds the complete
\* content of the previous or of a new write, never a part of one.
C20_TargetNeverPartial ==
    \/ files[TargetPath] = Absent
    \/ files[TargetPath].content \in {serialize(v) : v \in WrittenValues}

\* one write crashed half way, leaving a partial temp file, and the target
\* holds the complete content of another write
C20_Witness ==
    \E i, j \in 1..Len(writers) :
        /\ writers[i].pc = "crashed"
        /\ files[writers[i].tmp] # Absent
        /\ Len(files[writers[i].tmp].content) \in 1..3
        /\ writers[j].pc = "done"
        /\ files[TargetPath] # Absent
        /\ files[TargetPath].content = serialize(writers[j].value)

\* ======================================================================
\* Properties of failures, authorization and replies
\* ======================================================================

\* ---------------------------------------------------------------- C21
\* the last-seen write of a handler of the current run has been rejected
WriteFailed == \E i \in Idx : handlers[i].run = run /\ handlers[i].pc = "writefail"

\* C21: a rejected checkpoint write does not end the session: after the
\* last-seen write of a handler has been rejected, the process is still
\* running (and goes on deciding replays with its in-memory map).
C21_WriteFailureKeepsSessionRunning == WriteFailed => alive

\* ---------------------------------------------------------------- C22
\* this step is the start of a run whose read of sync.json gave no object
StartsWithoutCheckpoint == run' # run /\ ~loadOk'

\* C22: a run that finds sync.json missing, unreadable or not a JSON object
\* starts with no prior state (no sync token, empty last-seen map), and
\* it does start: the read never ends the process.
C22_ReadFailureMeansNoPriorState ==
    [][StartsWithoutCheckpoint =>
          /\ alive'
          /\ ~hasSyncToken'
          /\ lastEventTsByRoom' = EmptyTs]_vars

\* a second run could not read a checkpoint that holds a token and a
\* last-seen entry, and has dispatched a message
C22_Witness ==
    /\ run = 2 /\ ~loadOk /\ alive
    /\ syncFile.nextBatch # NoToken
    /\ \E r \in Rooms : syncFile.lastEventTsByRoom[r] > 0
    /\ ~hasSyncToken
    /\ \E i \in Idx : handlers[i].run = 2 /\ handlers[i].pc = "dispatched"

\* ---------------------------------------------------------------- C23
\* monitorMatrixProvider threw for the account or for the login
AccountRejected == startupError \in {"notConfigured", "loginRejected"}

\* the sync loop never began: no startClient call, no restart round
SyncLoopUntouched ==
    /\ ~clientRunning
    /\ syncState = "NONE"
    /\ schedPc = "idle"
    /\ restartAttempt = 0
    /\ delayMs = 0

\* C23: an account that lacks serverUrl, username or password never gets
\* past the start, and once monitorMatrixProvider has thrown for the
\* account or for a rejected password login it has failed for good: the
\* sync loop was not started and no backoff round was begun.
C23_StartupErrorsAreFatal ==
    /\ ~configured(account) => mainPc \in {"create", "failed"} /\ SyncLoopUntouched
    /\ AccountRejected => mainPc = "failed" /\ SyncLoopUntouched

\* the password login of a complete account was rejected
C23_Witness ==
    /\ configured(account)
    /\ startupError = "loginRejected"
    /\ mainPc = "failed"

\* ---------------------------------------------------------------- C24
\* this step is the allow decision of handler i
Decides(i) == handlers[i].pc = "allow" /\ handlers'[i].pc # "allow"

\* handler i left the allow decision as an approved sender's message:
\* on its way to the backend, or ended for want of a body
PassedAsApproved(i) == handlers'[i].pc \in {"dispatch", "nobody"}

\* C24: approval takes effect without a restart: once the sender's id is
\* in the store's approved list, the allow decision of that sender's next
\* direct message under pairing or allowlist lets it through to the
\* backend and starts no pairing reply.
C24_ApprovalTakesEffect ==
    [][\A i \in Idx :
          (Decides(i) /\ handlers[i].sender \in storeAllowFrom)
              => PassedAsApproved(i)]_vars

Unlisted(h) ==
    /\ Wildcard \notin EffectiveAllowSet
    /\ normalizeAllowEntry(h.sender) \notin EffectiveAllowSet

\* C26: under allowlist the allow decision ends the handler of a direct
\* message whose sender is not in the effective allow-set, there and then:
\* the handler stays at "blocked" (no reply, no dispatch) and no step
\* changes the pairing requests.
C26_AllowlistDropsUnlisted ==
    [][dmPolicy = "allowlist" =>
          /\ pairingRequests' = pairingRequests
          /\ \A i \in Idx :
                /\ (Decides(i) /\ handlers'[i].pc # "killed" /\ Unlisted(handlers[i]))
                      => handlers'[i].pc = "blocked"
                /\ handlers[i].pc = "blocked" => handlers'[i].pc = "blocked"]_vars

\* under allowlist with an empty allow-list a direct message was blocked
C26_Witness ==
    /\ dmPolicy = "allowlist"
    /\ allowFrom = {}
    /\ pairingRequests = {}
    /\ \E i \in Idx :
          /\ DirectRoom(handlers[i].room)
          /\ handlers[i].sender = Bob
          /\ handlers[i].pc = "blocked"

\* ---------------------------------------------------------------- C27
\* the positions a handler is in only through the policy engine
PolicyPcs == {"disabled", "allow", "blocked", "upsert", "pairreply",
              "pending", "paired", "pairfail"}

\* C27: the handler of a message in a room with more than two joined
\* members never enters the policy engine: it is not dropped as disabled
\* or blocked and it starts no pairing request, whatever dmPolicy and the
\* allow-list are.
C27_GroupMessagesBypassPolicy ==
    \A i \in Idx :
        JoinedMemberCount(handlers[i].room) > DirectThreshold
            => handlers[i].pc \notin PolicyPcs

\* under dmPolicy disabled a message of a group room has been dispatched
C27_Witness ==
    /\ dmPolicy = "disabled"
    /\ \E i \in Idx :
          /\ JoinedMemberCount(handlers[i].room) > DirectThreshold
          /\ handlers[i].sender = Bob
          /\ handlers[i].pc = "dispatched"

\* ---------------------------------------------------------------- C28
\* the sendTyping calls made so far with this value
TypingCallsWith(v) == {n \in 1..Len(typingCalls) : typingCalls[n] = v}

\* a payload's send has been started
DeliveryBegun == sentLog # <<>> \/ dpc = "send"

\* the indicator was raised as the first thing, once
RaisedFirst == typingCalls # <<>> /\ typingCalls[1] /\ Cardinality(TypingCallsWith(TRUE)) = 1

\* the indicator has been cleared, as the last thing, once
ClearedLast ==
    /\ Cardinality(TypingCallsWith(FALSE)) = 1
    /\ ~typingCalls[Len(typingCalls)]

RECURSIVE FailedKinds(_)
FailedKinds(log) ==
    IF log = <<>> THEN <<>>
    ELSE (IF Head(log).ok THEN <<>> ELSE <<replies[Head(log).p].kind>>)
         \o FailedKinds(Tail(log))

\* the dispatch has handled every payload
Exhausted == dpc \in {"resolved", "idle"}

\* C29: a failed send is reported to the error sink with the kind of its
\* payload, no send is made twice, and when the dispatch is over every
\* payload that has something to send has had its first send made,
\* whatever happened to the payloads before it.
C29_FailedSendReportedNotRetried ==
    /\ errorSink = FailedKinds(sentLog)
    /\ \A m, n \in 1..Len(sentLog) :
          (sentLog[m].p = sentLog[n].p /\ sentLog[m].k = sentLog[n].k) => m = n
    /\ Exhausted =>
          \A q \in 1..Len(replies) :
              sendsOf(replies[q]) # <<>> =>
                  \E n \in 1..Len(sentLog) : sentLog[n].p = q /\ sentLog[n].k = 1

\* the send of a first payload of kind block failed and was reported, and
\* the second payload, of kind final, was sent
C29_Witness ==
    /\ dpc = "idle"
    /\ Len(replies) = 2
    /\ replies[1].kind = "block" /\ replies[2].kind = "final"
    /\ errorSink = <<"block">>
    /\ \E n \in 1..Len(sentLog) : sentLog[n].p = 2 /\ sentLog[n].ok

\* ---------------------------------------------------------------- C30
\* C30: the sends of one message are made in the order of the payloads
\* and, within a payload, in the order of its chunks (or urls), each one
\* carrying its own chunk, and a send is made only after the one before it
\* has finished (and, within a payload, succeeded).
C30_SendsInPayloadAndChunkOrder ==
    /\ \A n \in 1..Len(sentLog) :
          LET e == sentLog[n]
              parts == sendsOf(replies[e.p])
          IN /\ e.k \in 1..Len(parts)
             /\ e.media = parts[e.k].media
             /\ e.text = parts[e.k].text
             /\ IF n = 1 THEN e.k = 1
                ELSE LET d == sentLog[n - 1] IN
                     \/ d.p < e.p /\ e.k = 1
                     \/ d.p = e.p /\ e.k = d.k + 1 /\ d.ok
    /\ dpc = "send" =>
          /\ cur.p >= 1 /\ cur.k >= 1
          /\ \A n \in 1..Len(sentLog) :
                \/ sentLog[n].p < cur.p
                \/ sentLog[n].p = cur.p /\ sentLog[n].k < cur.k

\* a text payload of two chunks and then a media payload were sent, all
\* sends succeeding
C30_Witness ==
    /\ dpc = "idle"
    /\ Len(replies) = 2
    /\ replies[1].urls = 0 /\ replies[1].text = <<"a", "b", "c">>
    /\ replies[2].urls = 1
    /\ Len(sentLog) = 3
    /\ sentLog[1].text = <<"a", "b">> /\ sentLog[2].text = <<"c">>
    /\ sentLog[3].media = 1
    /\ \A n \in 1..3 : sentLog[n].ok

\* ---------------------------------------------------------------- C31
\* handleAutoJoinInvite went on to client.joinRoom
Joins(inv) == inv.pc \in {"joining", "joined", "joinfail"}

\* some candidate of the invite matches some entry of the allow-list
AnyMatchesAny(inv) ==
    \E e \in 1..Len(autoJoinAllowlist), c \in 1..Len(inv.candidates) :
        matchesAutoJoinEntry(autoJoinAllowlist[e], inv.candidates[c])

\* C31: an invite of the account is followed by a join exactly when some
\* candidate (room id, alias, inviter id) matches some entry of the
\* allow-list; with an empty allow-list nothing is joined.
C31_JoinsIffAnyCandidateMatches ==
    \A n \in 1..Len(invites) :
        LET inv == invites[n] IN
        /\ Len(autoJoinAllowlist) = 0 => ~Joins(inv)
        /\ inv.considered => (Joins(inv) <=> AnyMatchesAny(inv))
        /\ ~inv.considered => ~Joins(inv)

\* a room was joined for its inviter alone: neither the room id nor an
\* alias matches an entry
C31_Witness ==
    \E n \in 1..Len(invites) :
        LET inv == invites[n] IN
        /\ inv.pc = "joined"
        /\ Len(inv.candidates) = 3
        /\ \A pr \in inv.hits : pr[2] = 3

\* ---------------------------------------------------------------- C32
\* the entry has the form <sigil>*:<domain>
IsWildcardPattern(e) == Len(e) > 3 /\ e[1] \in Sigils /\ e[2] = "*" /\ e[3] = ":"

\* d is what follows the first ":" of s
AfterFirstColon(s, d) ==
    \E k \in 1..Len(s) :
        /\ s[k] = ":"
        /\ \A j \in 1..(k - 1) : s[j] # ":"
        /\ d = SubSeq(s, k + 1, Len(s))

\* what the entry is meant to match, letters compared without their case
PatternMatches(e, c) ==
    IF IsWildcardPattern(e)
    THEN /\ c # <<>>
         /\ c[1] = e[1]
         /\ AfterFirstColon(toLowerCase(c), SubSeq(e, 4, Len(e)))
    ELSE toLowerCase(c) = toLowerCase(e)

\* C32: for every entry of the allow-list and every candidate of an invite
\* that was looked at, the entry matched the candidate exactly when, for a
\* literal entry, the two are equal ignoring case and, for an entry
\* <sigil>*:<domain>, the candidate begins with the sigil and its part
\* after the first ":" is the domain.
C32_LiteralAndWildcardMatching ==
    \A n \in 1..Len(invites) :
        LET inv == invites[n] IN
        inv.considered =>
            \A e \in 1..Len(autoJoinAllowlist), c \in 1..Len(inv.candidates) :
                (<<e, c>> \in inv.hits)
                    <=> PatternMatches(autoJoinAllowlist[e], inv.candidates[c])

\* the entry !*:x matched the room id !a:x and not the inviter @B:x
C32_Witness ==
    \E n \in 1..Len(invites) :
        LET inv == invites[n] IN
        /\ inv.considered
        /\ autoJoinAllowlist = << <<"!", "*", ":", "x">> >>
        /\ inv.candidates = << <<"!", "a", ":", "x">>, <<"@", "B", ":", "x">> >>
        /\ inv.hits = {<<1, 1>>}

\* ---------------------------------------------------------------- C33
\* the reported status: connected = false with a non-empty lastError
StatusErrors == {"state", "sync", "start"}

StatusDown == lastError \in StatusErrors

\* this step hands the sync state Error to onSync
ErrorStateStep == \E w \in BOOLEAN, roll \in JitterRolls : OnSync("ERROR", w, roll)

\* this step hands Prepared or Syncing to onSync
CaughtUpStep ==
    \E s \in {"PREPARED", "SYNCING"}, w \in BOOLEAN, roll \in JitterRolls : OnSync(s, w, roll)

\* in this step a startClient call rejects
FailedStartStep ==
    \/ \E roll \in JitterRolls : InitialStartFail(roll)
    \/ \E roll \in JitterRolls : RestartStartFail(roll)

\* C33 as stated: after every sync Error state or failed (re)start the
\* status is connected = false with a non-empty lastError, and it stays so
\* until the next Prepared/Syncing state, which sets connected = true and
\* lastError = null.
C33_Original ==
    [][/\ (ErrorStateStep \/ FailedStartStep) => StatusDown'
       /\ (StatusDown /\ ~StatusDown') => (CaughtUpStep /\ lastError' = "null")
       /\ CaughtUpStep => lastError' = "null"]_vars

\* this step is a rejected startClient call whose scheduleRestart call gets
\* past its two early returns (a cycle in progress, the signal fired)
ReportedFailedStartStep ==
    \/ \E roll \in JitterRolls :
          InitialStartFail(roll) /\ scheduleRestart(restarting, roll).entered
    \/ \E roll \in JitterRolls :
          RestartStartFail(roll) /\ scheduleRestart(restartingInCatch, roll).entered

\* C33, amended: after every sync Error state, and after every failed
\* (re)start that happens while the abort signal has not fired and no other
\* restart cycle is in progress, the status is connected = false with a
\* non-empty lastError; it stays so until the next Prepared/Syncing state,
\* which sets connected = true and lastError = null. A start that fails
\* after the abort, or during another restart cycle, is not reported.
C33_StatusDownUntilCaughtUp ==
    [][/\ (ErrorStateStep \/ ReportedFailedStartStep) => StatusDown'
       /\ (StatusDown /\ ~StatusDown') => (CaughtUpStep /\ lastError' = "null")
       /\ CaughtUpStep => lastError' = "null"]_vars

\* a restart has failed and been reported, and the status is still down
C33_Witness ==
    /\ lastError = "start"
    /\ schedPc = "sleep"
    /\ restartAttempt >= 2
    /\ syncState = "ERROR"

\* ---------------------------------------------------------------- C34
\* where a handler is once the authorization step has dropped its event
DroppedByAuthorization ==
    {"disabled", "blocked", "upsert", "pairreply", "pending", "paired", "pairfail"}

\* the replay guard would reject a redelivery of the event of handler i as
\* already seen
RedeliveryIsOld(i) == isOld(handlers[i].ts, lastEventTsByRoom[handlers[i].room])

\* a restart that reads sync.json as it is now would start with a last-seen
\* map under which the guard rejects that redelivery as already seen
RedeliveryIsOldAfterRestart(i) ==
    isOld(handlers[i].ts,
          readMatrixSyncState("object").state.lastEventTsByRoom[handlers[i].room])

\* C34, for events that carry a timestamp and while the checkpoint is read
\* back without error: an event accepted by the replay guard is recorded
\* (last-seen advanced and persisted) before authorization runs, so an event
\* that authorization then drops is rejected as already seen if it is
\* redelivered, in this run or after a restart from the checkpoint, whether
\* or not its sender has been approved meanwhile.
C34_DroppedEventStaysSeen ==
    \A i \in Idx :
        (/\ alive /\ loadOk
         /\ handlers[i].ts > 0
         /\ handlers[i].pc \in DroppedByAuthorization)
        => (RedeliveryIsOld(i) /\ RedeliveryIsOldAfterRestart(i))

\* ---------------------------------------------------------------- C35
\* the checkpoint write of recordInboundTimestamp has rejected for handler i
WriteFailedAt(i) == handlers[i].pc = "writefail"

\* C35: if the checkpoint write in recordInboundTimestamp fails for an
\* accepted event, that event is neither authorized nor dispatched (its
\* handler has ended), and because the in-memory last-seen was advanced
\* before the write, a redelivery of the same event later in the run is
\* rejected as already seen.
C35_FailedWriteDropsEventButKeepsItSeen ==
    /\ [](\A i \in Idx :
             (WriteFailedAt(i) /\ handlers[i].run = run) => RedeliveryIsOld(i))
    /\ [][\A i \in Idx : WriteFailedAt(i) => handlers'[i].pc = "writefail"]_vars
    /\ [][\A i \in Idx : \A j \in Idx :
             (/\ WriteFailedAt(i) /\ handlers[i].run = run
              /\ SameEvent(handlers[i], handlers[j])
              /\ GuardStep(j)) => handlers'[j].pc = "old"]_vars

\* the write failed for an event, and its redelivery in the same run has
\* been rejected as already seen
C35_Witness ==
    \E i \in Idx : \E j \in Idx :
        /\ alive
        /\ WriteFailedAt(i) /\ handlers[i].run = run
        /\ j > i /\ handlers[j].run = run
        /\ SameEvent(handlers[i], handlers[j])
        /\ handlers[j].pc = "old"

\* ---------------------------------------------------------------- C36
\* an invocation of scheduleRestart is sleeping in its backoff or awaiting
\* its startClient call
CycleInProgress == schedPc \in {"sleep", "start"}

\* this step invokes scheduleRestart from outside that invocation: from
\* onSync (state Error) or from the catch of the first startClient call
OtherInvocationStep ==
    \/ ErrorStateStep
    \/ \E roll \in JitterRolls : InitialStartFail(roll)

\* C36: at most one restart cycle is in progress: while one scheduleRestart
\* invocation is sleeping in backoff or awaiting startClient, the flag
\* restarting is set and every other invocation returns immediately: it does
\* not increment the attempt counter, call onError, sleep or start the client.
C36_OneRestartCycle ==
    /\ [](CycleInProgress => restarting)
    /\ [][(CycleInProgress /\ OtherInvocationStep) =>
             /\ restartAttempt' = restartAttempt
             /\ lastError' \in {lastError, "state"}
             /\ delayMs' = delayMs
             /\ schedPc' = schedPc
             /\ restarting' = restarting
             /\ ~(clientRunning' /\ ~clientRunning)]_vars

\* the state Error arrived while a cycle was awaiting startClient: only the
\* onSyncState report was made
C36_Witness ==
    /\ schedPc = "start"
    /\ restarting
    /\ ~aborted
    /\ syncState = "ERROR"
    /\ ~clientRunning
    /\ lastError = "state"
    /\ restartAttempt = 1

\* ---------------------------------------------------------------- C37
\* this step completes the sync-token update of onSync
TokenUpdateStep == SyncToken

\* this step completes the last-seen update of handler i
LastSeenUpdateStep(i) == \E hasBody \in BOOLEAN : PersistDone(i, hasBody)

OwnEvent(i) == handlers[i].sender = SelfId

\* C38: an event whose sender is the account's own user id is never
\* dispatched and never creates a pairing request or a pairing reply (its
\* handler ends at the self filter), and the step that handles it changes
\* neither the last-seen map nor the checkpoint.
C38_OwnEventsAreIgnored ==
    /\ [](\A i \in Idx :
             OwnEvent(i) =>
                 handlers[i].pc \in {"decrypt", "undecryptable", "self", "killed"})
    /\ [](SelfId \notin pairingRequests)
    /\ [][\A i \in Idx :
             (OwnEvent(i) /\ handlers[i].pc = "decrypt" /\ handlers'[i].pc = "self") =>
                 /\ lastEventTsByRoom' = lastEventTsByRoom
                 /\ syncFile' = syncFile
                 /\ pairingRequests' = pairingRequests]_vars

\* an own event with a timestamp above last-seen has been filtered out, and
\* its room still has no last-seen entry in memory or in the checkpoint
C38_Witness ==
    \E i \in Idx :
        /\ OwnEvent(i)
        /\ handlers[i].pc = "self"
        /\ handlers[i].run = run
        /\ handlers[i].ts > 0
        /\ lastEventTsByRoom[handlers[i].room] = 0
        /\ syncFile.lastEventTsByRoom[handlers[i].room] = 0

\* ---------------------------------------------------------------- C39
\* the event of handler i has no timestamp (missing or 0)
Untimed(i) == handlers[i].ts = 0

\* C39: an event with a missing or zero timestamp bypasses the replay guard:
\* it is never rejected as old or as pre-start and its passage changes
\* neither the last-seen map nor the checkpoint (no write is started for it),
\* so every redelivery of it is accepted again.
C39_UntimedEventsBypassGuard ==
    /\ [][\A i \in Idx :
             (Untimed(i) /\ GuardStep(i)) =>
                 /\ Accepted(handlers'[i])
                 /\ handlers'[i].pc # "persist"
                 /\ lastEventTsByRoom' = lastEventTsByRoom
                 /\ syncFile' = syncFile]_vars
    /\ [](\A i \in Idx :
             Untimed(i) => handlers[i].pc \notin {"old", "prestart", "persist", "writefail"})

\* an untimed event and its redelivery have both passed the guard, in a run
\* that applies the pre-start cutoff to timed events of that room
C39_Witness ==
    \E i \in Idx : \E j \in Idx :
        /\ i < j
        /\ Untimed(i) /\ Untimed(j)
        /\ SameEvent(handlers[i], handlers[j])
        /\ handlers[i].run = run /\ handlers[j].run = run
        /\ Accepted(handlers[i]) /\ Accepted(handlers[j])
        /\ handlers[i].pc # "killed" /\ handlers[j].pc # "killed"
        /\ ~hasSyncToken /\ startupCutoff > 0
        /\ lastEventTsByRoom[handlers[i].room] = 0

\* ---------------------------------------------------------------- C40
\* the sends made for payload q, in the order they were made
SendsMadeFor(q) == SelectSeq(sentLog, LAMBDA e : e.p = q)

\* how many of the sends made so far succeeded
SuccessfulSends == Cardinality({n \in 1..Len(sentLog) : sentLog[n].ok})

\* C40: within a single reply payload the sends are strictly sequential and
\* stop at the first failure: the chunks or URLs sent are a prefix of the
\* payload's parts, in order, only the last one sent can have failed, the
\* parts after a failed one are never sent, and outbound activity is
\* recorded once per successful send and for no other.
C40_SendsStopAtFirstFailure ==
    /\ \A q \in 1..Len(replies) :
          LET made == SendsMadeFor(q)
              parts == sendsOf(replies[q])
          IN
          /\ Len(made) <= Len(parts)
          /\ \A n \in 1..Len(made) :
                /\ made[n].k = n
                /\ made[n].media = parts[n].media
                /\ made[n].text = parts[n].text
                /\ n < Len(made) => made[n].ok
          /\ (dpc = "send" /\ cur.p = q) =>
                 /\ cur.k = Len(made) + 1
                 /\ \A n \in 1..Len(made) : made[n].ok
    /\ outboundActivity = SuccessfulSends

\* a payload of two parts whose first send failed: its second part was not
\* sent, the delivery went on to the end, and only the successful sends of
\* the other payload were recorded
C40_Witness ==
    /\ dpc = "idle"
    /\ Len(replies) = 2
    /\ Len(sendsOf(replies[1])) = 2
    /\ Len(SendsMadeFor(1)) = 1
    /\ ~SendsMadeFor(1)[1].ok
    /\ Len(SendsMadeFor(2)) = 2
    /\ outboundActivity = 2

====
